---- MODULE Spec2Model ----
(***************************************************************************)
(* Model of the oraclaw sidecar service (oraclaw-service/oraclaw_service): *)
(* TranscriptService, MemoryService and EmbeddingService over the Oracle   *)
(* tables declared in db/schema.py.                                        *)
(*                                                                         *)
(* Every request handler runs as a coroutine of one of the processes in    *)
(* Procs.  A handler is cut into steps at the statements whose effect on   *)
(* the committed table contents another handler can observe: a step is    *)
(* one SQL statement (with the commit that publishes it).  The fields of   *)
(* loc[p] are the local variables a handler carries from one step to the   *)
(* next; at pc[p] = "return" loc[p] is the value the handler returns (or    *)
(* the error it raises) to the API route, which then answers the request.  *)
(*                                                                         *)
(* Numbers: similarities, distances and min_score are in units of 1e-5,    *)
(* scores (rounded to 4 decimals) in units of 1e-4.                        *)
(***************************************************************************)
EXTENDS Integers, Sequences, FiniteSets, TLC

VARIABLES
    pc,              \* pc[p]: the step process p is at ("idle" between handlers)
    loc,             \* loc[p]: local variables of the handler p is running
    next_uuid,       \* source of fresh uuid4 values
    now,             \* the store's CURRENT_TIMESTAMP
    transcripts,     \* rows of ORACLAW_TRANSCRIPTS
    chunks,          \* rows of ORACLAW_CHUNKS
    memories,        \* rows of ORACLAW_MEMORIES
    sessions,        \* rows of ORACLAW_SESSIONS
    mode,            \* EmbeddingService._mode
    sync_conn,       \* EmbeddingService._sync_conn
    model,           \* EmbeddingService._model
    onnx_registered, \* the ONNX model is listed in USER_MINING_MODELS
    open_conns,      \* synchronous connections opened and not yet closed
    pool,            \* app.state.pool: "None" when create_pool failed at startup
    files,           \* rows of ORACLAW_FILES
    embedding_cache, \* rows of ORACLAW_EMBEDDING_CACHE
    pool_max,        \* pool.max: the size the pool was created with
    busy,            \* pool.busy: pooled connections acquired and not released
    held             \* held[p]: pooled connections the handler of p holds

vars == <<pc, loc, next_uuid, now, transcripts, chunks, memories, sessions,
          mode, sync_conn, model, onnx_registered, open_conns,
          pool, files, embedding_cache, pool_max, busy, held>>

tvars == <<transcripts>>
mvars == <<chunks, memories>>
evars == <<mode, sync_conn, model, onnx_registered, open_conns>>
pvars == <<pool_max, busy, held>>
avars == <<pool, files, embedding_cache, pvars>>

----------------------------------------------------------------------------
(* Bounds and input domains *)

MaxEvents == 3       \* transcript events appended in one behaviour
MaxClock == 1        \* ticks of the store clock
MaxAccess == 1       \* largest access_count reached
MaxOpenConns == 1    \* synchronous connections open at once
MaxBatch == 2        \* chunks in one store_chunks_batch call

Procs == {"p1", "p2"}
Sessions == {"s1", "s2"}
Agents == {"x", "y"}
EventTypes == {"header", "message"}

ChunkIds == {"c1", "c2"}
MemoryIds == {"m1", "m2"}      \* values uuid4 can draw for a memory_id

NoLoc == [op |-> "none"]

----------------------------------------------------------------------------
(* Generic helpers *)

\* the service method of process p returns val (or raises) to its API route
Returns(p, val) ==
    /\ pc' = [pc EXCEPT ![p] = "return"]
    /\ loc' = [loc EXCEPT ![p] = val]

\* the API route answers the request with what the service method returned
api_return(p) ==
    /\ pc[p] = "return"
    /\ pc' = [pc EXCEPT ![p] = "idle"]
    /\ loc' = [loc EXCEPT ![p] = NoLoc]
    /\ UNCHANGED <<avars, sessions, next_uuid, now, transcripts, chunks, memories,
                   mode, sync_conn, model, onnx_registered, open_conns>>

Max(S) == CHOOSE m \in S : \A n \in S : n <= m

Min2(a, b) == IF a <= b THEN a ELSE b

RECURSIVE SortedSeqs(_, _)
\* every sequence listing the rows of S once, in ascending Key order; rows
\* with equal keys come in any relative order (ORDER BY without a tie-break);
\* key is a function giving the sort key of each row
SortedSeqs(S, key) ==
    IF S = {} THEN {<<>>}
    ELSE UNION { { <<m>> \o t : t \in SortedSeqs(S \ {m}, key) } :
                 m \in { r \in S : \A o \in S : key[r] <= key[o] } }

\* OFFSET off ROWS FETCH NEXT lim ROWS ONLY applied to an ordered row list
Slice(s, off, lim) ==
    LET first == off + 1
        last  == Min2(Len(s), off + lim)
    IN  IF first > last THEN <<>> ELSE SubSeq(s, first, last)

----------------------------------------------------------------------------
(* TranscriptService *)

SessionEvents(s) == { e \in transcripts : e.session_id = s }

next_seq_num_reuse(s) ==
    IF SessionEvents(s) = {} THEN 0
    ELSE Max({ e.sequence_num : e \in SessionEvents(s) })

\* SELECT COALESCE(MAX(sequence_num), -1) + 1 ... WHERE session_id = :session_id
next_seq_num(s) ==
    IF SessionEvents(s) = {} THEN 0
    ELSE Max({ e.sequence_num : e \in SessionEvents(s) }) + 1

\* append, first statement: draw the event id and read the next sequence number
append_select(p, s, a, t) ==
    /\ pc[p] = "idle"
    /\ next_uuid <= MaxEvents
    /\ pc' = [pc EXCEPT ![p] = "append_insert"]
    /\ loc' = [loc EXCEPT ![p] = [op |-> "append", event_id |-> next_uuid,
                                  session_id |-> s, agent_id |-> a,
                                  event_type |-> t, seq_num |-> next_seq_num(s)]]
    /\ next_uuid' = next_uuid + 1
    /\ UNCHANGED <<avars, sessions, now, tvars, mvars, evars>>

\* append, second statement: INSERT the row, commit, return
append_insert(p) ==
    /\ pc[p] = "append_insert"
    /\ transcripts' = transcripts \cup
           {[id |-> loc[p].event_id, session_id |-> loc[p].session_id,
             agent_id |-> loc[p].agent_id, sequence_num |-> loc[p].seq_num,
             event_type |-> loc[p].event_type]}
    /\ Returns(p, [op |-> "append", status |-> "ok", id |-> loc[p].event_id,
                   session_id |-> loc[p].session_id,
                   sequence_num |-> loc[p].seq_num,
                   event_type |-> loc[p].event_type])
    /\ UNCHANGED <<avars, sessions, next_uuid, now, mvars, evars>>

\* the row lists get_events can return: ORDER BY sequence_num ASC, paged
get_events(s, offset, limit) ==
    { Slice(rows, offset, limit) :
        rows \in SortedSeqs(SessionEvents(s),
                            [e \in SessionEvents(s) |-> e.sequence_num]) }

\* the rows get_header can return (fetchone of sequence_num = 0), {} for None
get_header(s) == { e \in SessionEvents(s) : e.sequence_num = 0 }

delete_session_all(p, s) ==
    /\ pc[p] = "idle"
    /\ transcripts' = {}
    /\ Returns(p, [op |-> "delete_session", status |-> "ok", session_id |-> s,
                   deleted |-> Cardinality(transcripts)])
    /\ UNCHANGED <<avars, sessions, next_uuid, now, mvars, evars>>

\* DELETE FROM ORACLAW_TRANSCRIPTS WHERE session_id = :session_id; commit
delete_session(p, s) ==
    /\ pc[p] = "idle"
    /\ transcripts' = transcripts \ SessionEvents(s)
    /\ Returns(p, [op |-> "delete_session", status |-> "ok", session_id |-> s,
                   deleted |-> Cardinality(SessionEvents(s))])
    /\ UNCHANGED <<avars, sessions, next_uuid, now, mvars, evars>>

TranscriptStep(p) ==
    \/ \E s \in Sessions, a \in Agents, t \in EventTypes : append_select(p, s, a, t)
    \/ append_insert(p)
    \/ \E s \in Sessions : delete_session(p, s)

----------------------------------------------------------------------------
(* EmbeddingService *)

\* outcomes of the VECTOR_EMBEDDING probe statement of _test_db_embedding
ProbeOutcomes == {"vector", "null", "error"}

\* check_onnx_loaded: connect, count the model in USER_MINING_MODELS, close;
\* any exception gives False.  reachable: the connect and the query succeed.
check_onnx_loaded(reachable) == reachable /\ onnx_registered

\* _test_db_embedding: the row and its vector are non-null; an exception is False
test_db_embedding(probe) == probe = "vector"

\* EmbeddingService.initialize, called by POST /api/init and by the startup
\* auto-init.  reachable, conn_ok, probe and load_ok are what the backend and
\* the local model loader answer during this call.
initialize(p, reachable, conn_ok, probe, load_ok) ==
    /\ pc[p] = "idle"
    /\ IF check_onnx_loaded(reachable) /\ conn_ok /\ test_db_embedding(probe)
       THEN \* the previous handle, if any, is overwritten without close()
            /\ open_conns < MaxOpenConns
            /\ sync_conn' = "conn"
            /\ open_conns' = open_conns + 1
            /\ mode' = "database"
            /\ model' = model
            /\ Returns(p, [op |-> "initialize", status |-> "ok",
                           registered |-> check_onnx_loaded(reachable),
                           conn_ok |-> conn_ok, probe |-> probe,
                           load_ok |-> load_ok])
       ELSE /\ IF check_onnx_loaded(reachable) /\ conn_ok
               THEN \* probe failed: the connection just opened is closed
                    /\ sync_conn' = "None"
                    /\ open_conns' = open_conns
               ELSE IF check_onnx_loaded(reachable) /\ sync_conn # "None"
               THEN \* connect raised: the handler closes the handle it finds
                    /\ sync_conn' = "None"
                    /\ open_conns' = open_conns - 1
               ELSE \* not registered, or connect raised with no handle held
                    /\ sync_conn' = sync_conn
                    /\ open_conns' = open_conns
            /\ IF load_ok
               THEN /\ model' = "loaded"
                    /\ mode' = "python"
               ELSE /\ model' = model
                    /\ mode' = mode
            /\ Returns(p, [op |-> "initialize",
                           status |-> IF load_ok THEN "ok" ELSE "error",
                           registered |-> check_onnx_loaded(reachable),
                           conn_ok |-> conn_ok, probe |-> probe,
                           load_ok |-> load_ok])
    /\ UNCHANGED <<avars, sessions, next_uuid, now, tvars, mvars, onnx_registered>>

\* load_onnx_model (one-time setup run before initialize by both callers):
\* a failed load is logged, a failed connect raises; the connection is closed
load_onnx_model(p, conn_ok, loaded) ==
    /\ pc[p] = "idle"
    /\ ~onnx_registered
    /\ onnx_registered' = (conn_ok /\ loaded)
    /\ Returns(p, [op |-> "load_onnx_model",
                   status |-> IF conn_ok THEN "ok" ELSE "error"])
    /\ UNCHANGED <<avars, sessions, next_uuid, now, tvars, mvars, mode, sync_conn, model, open_conns>>

----------------------------------------------------------------------------
(* Embedding vectors and the store's VECTOR_DISTANCE *)

\* Unit vectors in the plane at multiples of 30 degrees stand for the 384-dim
\* embeddings; "zero" is the all-zero vector, "null" a NULL column value.
Unit(a) == [kind |-> "unit", angle |-> a]
ZeroVector == [kind |-> "zero", angle |-> 0]
NullVector == [kind |-> "null", angle |-> 0]

Texts == {"a", "b"}

\* the embedding the model (all-MiniLM-L12-v2, in the store or local) gives a text
Embed(text) == IF text = "a" THEN Unit(0) ELSE Unit(1)

\* 1e5 * cos(30 * d degrees), d = 0..6
CosTab == <<100000, 86603, 50000, 0, -50000, -86603, -100000>>

AngDiff(a, b) ==
    LET d == IF a >= b THEN a - b ELSE b - a
    IN  IF d <= 6 THEN d ELSE 12 - d

\* a NULL distance; ORDER BY ... ASC puts NULLs last
NullDistance == 1000000

\* what the store answers for the cosine distance to or from an all-zero
\* vector (its norm is 0): NULL or a fixed finite value
ZeroNormDistances == {NullDistance, 100000}

\* VECTOR_DISTANCE(e, q, COSINE)
VECTOR_DISTANCE(e, q, zd) ==
    IF e.kind = "zero" \/ q.kind = "zero" THEN zd
    ELSE 100000 - CosTab[AngDiff(e.angle, q.angle) + 1]

\* round(similarity, 4): to the nearest multiple of 1e-4, ties to even
round4(x) ==
    LET q == x \div 10
        r == x % 10
    IN  IF r > 5 \/ (r = 5 /\ q % 2 = 1) THEN q + 1 ELSE q

\* the lists of texts a caller passes (each text within the 512 characters
\* that _embed_texts_db_sync keeps)
TextLists ==
    {<<>>} \cup { <<t>> : t \in Texts } \cup { <<t, u>> : t \in Texts, u \in Texts }

\* _embed_texts_db_sync: one SELECT VECTOR_EMBEDDING per text, in the order
\* of the list, each appending the vector or [0.0]*384 when the row is empty
RECURSIVE embed_texts_db_sync(_)
embed_texts_db_sync(texts) ==
    IF texts = <<>> THEN {<<>>}
    ELSE { <<v>> \o rest : v \in {Embed(Head(texts)), ZeroVector},
                           rest \in embed_texts_db_sync(Tail(texts)) }

\* _embed_texts_python_sync: model.encode(texts), one row per text
RECURSIVE embed_texts_python_sync(_)
embed_texts_python_sync(texts) ==
    IF texts = <<>> THEN <<>>
    ELSE <<Embed(Head(texts))>> \o embed_texts_python_sync(Tail(texts))

\* the outcomes EmbeddingService.embed_texts(texts) can have in the current
\* mode.  database: the list of _embed_texts_db_sync, or a statement raises;
\* python: the list of encode, or encode raises; not initialized: RuntimeError.
\* A mode whose handle is missing (_sync_conn or _model is None) raises
\* AttributeError at the first use of the handle.
embed_texts_outcomes(texts) ==
    CASE mode = "database" /\ sync_conn # "None" ->
             { [status |-> "ok", vecs |-> v] : v \in embed_texts_db_sync(texts) }
                 \cup {[status |-> "error", vecs |-> <<>>]}
      [] mode = "python" /\ model # "None" ->
             {[status |-> "ok", vecs |-> embed_texts_python_sync(texts)],
              [status |-> "error", vecs |-> <<>>]}
      [] OTHER -> {[status |-> "error", vecs |-> <<>>]}

embed_query_lazy(text) ==
    IF mode = "python"
    THEN {[status |-> "ok", vec |-> Embed(text)],
          [status |-> "error", vec |-> NullVector]}
    ELSE {[status |-> "ok", vec |-> Embed(text)],
          [status |-> "ok", vec |-> ZeroVector],
          [status |-> "error", vec |-> NullVector]}

\* EmbeddingService.embed_query(text): results[0] of embed_texts([text]), or
\* the exception of embed_texts
embed_query(text) ==
    { [status |-> o.status,
       vec |-> IF o.status = "ok" THEN o.vecs[1] ELSE NullVector] :
         o \in embed_texts_outcomes(<<text>>) }

embed_texts_demoting(p, texts) ==
    /\ pc[p] = "idle"
    /\ \E out \in embed_texts_outcomes(texts) :
         /\ Returns(p, [op |-> "embed_texts", status |-> out.status,
                        vecs |-> out.vecs])
         /\ mode' = IF mode = "database" /\ out.status = "error"
                    THEN "python" ELSE mode
    /\ UNCHANGED <<avars, sessions, next_uuid, now, tvars, mvars, sync_conn, model,
                   onnx_registered, open_conns>>

\* EmbeddingService.embed_texts(texts) called on its own: the vectors or the
\* exception go to the caller, no attribute is assigned
embed_texts(p, texts) ==
    /\ pc[p] = "idle"
    /\ \E out \in embed_texts_outcomes(texts) :
         Returns(p, [op |-> "embed_texts", status |-> out.status,
                     vecs |-> out.vecs])
    /\ UNCHANGED <<avars, sessions, next_uuid, now, tvars, mvars, evars>>

\* the shutdown part of lifespan, once no request is being served:
\* embedding_service.close() closes and drops _sync_conn and drops _model
\* (it assigns nothing to _mode), then conn_mgr.close_pool()
shutdown ==
    /\ pool = "pool"
    /\ \A p \in Procs : pc[p] = "idle"
    /\ sync_conn' = "None"
    /\ open_conns' = IF sync_conn # "None" THEN open_conns - 1 ELSE open_conns
    /\ model' = "None"
    /\ pool' = "closed"
    /\ UNCHANGED <<pc, loc, pvars, files, embedding_cache, sessions, next_uuid, now,
                   tvars, mvars, mode, onnx_registered>>

\* outcomes of one SELECT VECTOR_EMBEDDING(... USING :text AS DATA) FROM DUAL
StatementOutcomes == {"vector", "empty", "error"}

\* _embed_texts_db hands _embed_texts_db_sync to the default executor, whose
\* threads run concurrent calls side by side; each call opens its own cursor
\* on the shared _sync_conn (a missing handle raises)
embed_texts_db_begin(p, texts) ==
    /\ pc[p] = "idle"
    /\ mode = "database"
    /\ IF sync_conn = "None"
       THEN Returns(p, [op |-> "embed_texts_db", status |-> "error",
                        texts |-> texts, vecs |-> <<>>])
       ELSE /\ pc' = [pc EXCEPT ![p] = "embed_texts_db"]
            /\ loc' = [loc EXCEPT ![p] =
                         [op |-> "embed_texts_db", texts |-> texts, results |-> <<>>]]
    /\ UNCHANGED <<avars, sessions, next_uuid, now, tvars, mvars, evars>>

\* one pass of the loop: cursor.execute and fetchone for the next text (one
\* round trip on the connection, which the driver makes exclusive), then
\* results.append of the vector or of [0.0] * 384; after the last text return
embed_texts_db_statement(p, outcome) ==
    /\ pc[p] = "embed_texts_db"
    /\ LET i == Len(loc[p].results) + 1
       IN  IF i > Len(loc[p].texts)
           THEN Returns(p, [op |-> "embed_texts_db", status |-> "ok",
                            texts |-> loc[p].texts, vecs |-> loc[p].results])
           ELSE IF outcome = "error" \/ sync_conn = "None"
           THEN Returns(p, [op |-> "embed_texts_db", status |-> "error",
                            texts |-> loc[p].texts, vecs |-> <<>>])
           ELSE /\ loc' = [loc EXCEPT ![p].results =
                             Append(loc[p].results,
                                    IF outcome = "vector"
                                    THEN Embed(loc[p].texts[i]) ELSE ZeroVector)]
                /\ pc' = pc
    /\ UNCHANGED <<avars, sessions, next_uuid, now, tvars, mvars, evars>>

EmbeddingStep(p) ==
    \/ \E reachable \in BOOLEAN, conn_ok \in BOOLEAN, probe \in ProbeOutcomes,
          load_ok \in BOOLEAN : initialize(p, reachable, conn_ok, probe, load_ok)
    \/ \E conn_ok \in BOOLEAN, loaded \in BOOLEAN : load_onnx_model(p, conn_ok, loaded)
    \/ \E texts \in TextLists : embed_texts(p, texts)

----------------------------------------------------------------------------
(* MemoryService: the similarity query shared by search and recall *)

MaxResultsValues == {1, 2}
MinScores == {86603, 100000}

fetch_first_no_limit(S, key, k) == SortedSeqs(S, key)

fetch_first_unordered(S, key, k) ==
    { Slice(rows, 0, k) : rows \in SortedSeqs(S, [r \in S |-> 0]) }

\* ORDER BY key DESC FETCH FIRST k ROWS ONLY
fetch_first_descending(S, key, k) ==
    { Slice(rows, 0, k) : rows \in SortedSeqs(S, [r \in S |-> 0 - key[r]]) }

\* ORDER BY key ASC FETCH FIRST k ROWS ONLY over the rows S
fetch_first(S, key, k) == { Slice(rows, 0, k) : rows \in SortedSeqs(S, key) }

passes_threshold_always(similarity, min_score) == TRUE

\* 'if similarity < min_score: continue'
passes_threshold(similarity, min_score) == ~(similarity < min_score)

\* float(row[..]) raises TypeError on a NULL distance
rows_raise(rows, qvec, zd) ==
    \E i \in 1..Len(rows) :
        VECTOR_DISTANCE(rows[i].embedding, qvec, zd) = NullDistance

\* similarity = 1.0 - distance
similarity_of(row, qvec, zd) == 100000 - VECTOR_DISTANCE(row.embedding, qvec, zd)

----------------------------------------------------------------------------
(* MemoryService: chunks *)

Paths == {"a.py"}
Sources == {"memory", "sessions"}
Lines == {1}
Hashes == {"h"}
Models == {"m"}

\* the source argument of search: "" stands for None or the empty string
SourceFilters == Sources \cup {""}

search_rows_filter_after(qvec, source, max_results, zd) ==
    LET cand == { c \in chunks : c.embedding.kind # "null" }
        key  == [c \in cand |-> VECTOR_DISTANCE(c.embedding, qvec, zd)]
    IN  { SelectSeq(rows, LAMBDA c : source = "" \/ c.source = source) :
            rows \in fetch_first(cand, key, max_results) }

\* the rows the SELECT of search fetches: the filter, the order and the limit
\* are one statement
search_rows(qvec, source, max_results, zd) ==
    LET cand == { c \in chunks : /\ c.embedding.kind # "null"
                                 /\ (source # "" => c.source = source) }
        key  == [c \in cand |-> VECTOR_DISTANCE(c.embedding, qvec, zd)]
    IN  fetch_first(cand, key, max_results)

\* the result loop of search.  chunk_id and similarity are not in the dict
\* the code builds; they identify the row and carry the unrounded value.
search_results(rows, qvec, min_score, zd) ==
    LET kept == SelectSeq(rows, LAMBDA c :
                    passes_threshold(similarity_of(c, qvec, zd), min_score))
    IN  [i \in 1..Len(kept) |->
            [chunk_id |-> kept[i].chunk_id, path |-> kept[i].path,
             startLine |-> kept[i].start_line, endLine |-> kept[i].end_line,
             snippet |-> kept[i].text,
             similarity |-> similarity_of(kept[i], qvec, zd),
             score |-> round4(similarity_of(kept[i], qvec, zd)),
             source |-> kept[i].source]]

\* MemoryService.search
search(p, query, max_results, min_score, source) ==
    /\ pc[p] = "idle"
    /\ \E out \in embed_query(query), zd \in ZeroNormDistances :
         \E rows \in search_rows(out.vec, source, max_results, zd) :
            IF out.status = "error" \/ rows_raise(rows, out.vec, zd)
            THEN Returns(p, [op |-> "search", status |-> "error",
                             filter |-> source, max_results |-> max_results,
                             min_score |-> min_score, qvec |-> NullVector,
                             results |-> <<>>])
            ELSE Returns(p, [op |-> "search", status |-> "ok",
                             filter |-> source, max_results |-> max_results,
                             min_score |-> min_score, qvec |-> out.vec,
                             results |-> search_results(rows, out.vec, min_score, zd)])
    /\ UNCHANGED <<avars, sessions, next_uuid, now, tvars, mvars, evars>>

\* the row the MERGE of store_chunk writes for the request chunk
chunk_row(chunk, embedding) ==
    [chunk_id |-> chunk.id, path |-> chunk.path, source |-> chunk.source,
     start_line |-> chunk.start_line, end_line |-> chunk.end_line,
     hash |-> chunk.hash, model |-> chunk.model, text |-> chunk.text,
     embedding |-> embedding]

store_chunk_insert_only(p, chunk) ==
    /\ pc[p] = "idle"
    /\ \E out \in embed_query(chunk.text) :
         IF out.status = "error"
         THEN /\ chunks' = chunks
              /\ Returns(p, [op |-> "store_chunk", status |-> "error",
                             id |-> chunk.id, chunk |-> chunk,
                             embedding |-> NullVector])
         ELSE /\ chunks' = IF \E c \in chunks : c.chunk_id = chunk.id
                           THEN chunks
                           ELSE chunks \cup {chunk_row(chunk, out.vec)}
              /\ Returns(p, [op |-> "store_chunk", status |-> "ok",
                             id |-> chunk.id, chunk |-> chunk,
                             embedding |-> out.vec])
    /\ UNCHANGED <<avars, sessions, next_uuid, now, tvars, memories, evars>>

\* MemoryService.store_chunk: embed the text, MERGE by chunk_id, commit.
\* chunk and embedding are the handler's locals at the return statement.
store_chunk(p, chunk) ==
    /\ pc[p] = "idle"
    /\ \E out \in embed_query(chunk.text) :
         IF out.status = "error"
         THEN /\ chunks' = chunks
              /\ Returns(p, [op |-> "store_chunk", status |-> "error",
                             id |-> chunk.id, chunk |-> chunk,
                             embedding |-> NullVector])
         ELSE /\ chunks' = { c \in chunks : c.chunk_id # chunk.id } \cup
                                {chunk_row(chunk, out.vec)}
              /\ Returns(p, [op |-> "store_chunk", status |-> "ok",
                             id |-> chunk.id, chunk |-> chunk,
                             embedding |-> out.vec])
    /\ UNCHANGED <<avars, sessions, next_uuid, now, tvars, memories, evars>>

\* MemoryService.delete_chunk
delete_chunk(p, chunk_id) ==
    /\ pc[p] = "idle"
    /\ chunks' = { c \in chunks : c.chunk_id # chunk_id }
    /\ Returns(p, [op |-> "delete_chunk", status |-> "ok",
                   deleted |-> Cardinality({ c \in chunks : c.chunk_id = chunk_id })])
    /\ UNCHANGED <<avars, sessions, next_uuid, now, tvars, memories, evars>>

ChunkRequests ==
    [id : ChunkIds, path : Paths, source : Sources, start_line : Lines,
     end_line : Lines, hash : Hashes, model : Models, text : Texts]

ChunkStep(p) ==
    \/ \E q \in Texts, k \in MaxResultsValues, ms \in MinScores,
          src \in SourceFilters : search(p, q, k, ms, src)
    \/ \E chunk \in ChunkRequests : store_chunk(p, chunk)
    \/ \E id \in ChunkIds : delete_chunk(p, id)

----------------------------------------------------------------------------
(* MemoryService: store_chunks_batch *)

\* the chunks a batch request is made of
BatchChunks == { c \in ChunkRequests : c.source = "memory" }

BatchInputs == UNION { [1..n -> BatchChunks] : n \in 0..MaxBatch }

\* store_chunks_batch: stored = 0, errors = []
store_chunks_batch_begin(p, input) ==
    /\ pc[p] = "idle"
    /\ pc' = [pc EXCEPT ![p] = "batch"]
    /\ loc' = [loc EXCEPT ![p] = [op |-> "store_chunks_batch", status |-> "ok",
                                  chunks |-> input, i |-> 1, stored |-> 0,
                                  errors |-> <<>>, embeddings |-> <<>>]]
    /\ UNCHANGED <<avars, sessions, next_uuid, now, tvars, mvars, evars>>

store_chunks_batch_step_abort(p) ==
    /\ pc[p] = "batch"
    /\ loc[p].i <= Len(loc[p].chunks)
    /\ LET chunk == loc[p].chunks[loc[p].i] IN
       \E out \in embed_query(chunk.text) :
         IF out.status = "error"
         THEN /\ chunks' = chunks
              /\ loc' = [loc EXCEPT ![p].i = Len(loc[p].chunks) + 1,
                                    ![p].errors = Append(@, chunk.id),
                                    ![p].embeddings = Append(@, NullVector)]
         ELSE /\ chunks' = { c \in chunks : c.chunk_id # chunk.id } \cup
                                {chunk_row(chunk, out.vec)}
              /\ loc' = [loc EXCEPT ![p].i = @ + 1,
                                    ![p].stored = @ + 1,
                                    ![p].embeddings = Append(@, out.vec)]
    /\ UNCHANGED <<avars, sessions, pc, next_uuid, now, tvars, memories, evars>>

\* one iteration of the loop: store_chunk(chunk) in try / except.
\* embeddings[i] records the vector iteration i stored (null: it raised).
store_chunks_batch_step(p) ==
    /\ pc[p] = "batch"
    /\ loc[p].i <= Len(loc[p].chunks)
    /\ LET chunk == loc[p].chunks[loc[p].i] IN
       \E out \in embed_query(chunk.text) :
         IF out.status = "error"
         THEN /\ chunks' = chunks
              /\ loc' = [loc EXCEPT ![p].i = @ + 1,
                                    ![p].errors = Append(@, chunk.id),
                                    ![p].embeddings = Append(@, NullVector)]
         ELSE /\ chunks' = { c \in chunks : c.chunk_id # chunk.id } \cup
                                {chunk_row(chunk, out.vec)}
              /\ loc' = [loc EXCEPT ![p].i = @ + 1,
                                    ![p].stored = @ + 1,
                                    ![p].embeddings = Append(@, out.vec)]
    /\ UNCHANGED <<avars, sessions, pc, next_uuid, now, tvars, memories, evars>>

\* return {"stored": stored, "errors": errors}
store_chunks_batch_return(p) ==
    /\ pc[p] = "batch"
    /\ loc[p].i > Len(loc[p].chunks)
    /\ pc' = [pc EXCEPT ![p] = "return"]
    /\ UNCHANGED <<avars, sessions, loc, next_uuid, now, tvars, mvars, evars>>

BatchStep(p) ==
    \/ \E input \in BatchInputs : store_chunks_batch_begin(p, input)
    \/ store_chunks_batch_step(p)
    \/ store_chunks_batch_return(p)

----------------------------------------------------------------------------
(* MemoryService: long-term memories *)

Importances == {70}
Categories == {"other"}

\* the rows the SELECT of recall fetches
recall_rows(qvec, agent_id, max_results, zd) ==
    LET cand == { m \in memories : /\ m.agent_id = agent_id
                                   /\ m.embedding.kind # "null" }
        key  == [m \in cand |-> VECTOR_DISTANCE(m.embedding, qvec, zd)]
    IN  fetch_first(cand, key, max_results)

\* the result loop of recall; similarity carries the unrounded value
recall_results(rows, qvec, min_score, zd) ==
    LET kept == SelectSeq(rows, LAMBDA m :
                    passes_threshold(similarity_of(m, qvec, zd), min_score))
    IN  [i \in 1..Len(kept) |->
            [memory_id |-> kept[i].memory_id, agent_id |-> kept[i].agent_id,
             text |-> kept[i].text, importance |-> kept[i].importance,
             category |-> kept[i].category,
             similarity |-> similarity_of(kept[i], qvec, zd),
             score |-> round4(similarity_of(kept[i], qvec, zd)),
             accessed_at |-> kept[i].accessed_at,
             access_count |-> kept[i].access_count]]

\* memory_ids: the ids appended next to the results
memory_ids_of(results) == { results[i].memory_id : i \in 1..Len(results) }

\* remember with a MERGE on memory_id in place of the INSERT
remember_overwriting(p, text, agent_id, importance, category) ==
    /\ pc[p] = "idle"
    /\ \E id \in MemoryIds :
       \E out \in embed_query(text) :
         IF out.status = "error"
         THEN /\ memories' = memories
              /\ Returns(p, [op |-> "remember", status |-> "error",
                             memory_id |-> id, agent_id |-> agent_id])
         ELSE /\ memories' = { m \in memories : m.memory_id # id } \cup
                    {[memory_id |-> id, agent_id |-> agent_id,
                      text |-> text, importance |-> importance,
                      category |-> category, embedding |-> out.vec,
                      accessed_at |-> now, access_count |-> 0]}
              /\ Returns(p, [op |-> "remember", status |-> "ok",
                             memory_id |-> id, agent_id |-> agent_id])
    /\ UNCHANGED <<avars, sessions, next_uuid, now, tvars, chunks, evars>>

\* MemoryService.remember: uuid4 draws an id, the text is embedded, INSERT,
\* commit.  memory_id is the PRIMARY KEY of ORACLAW_MEMORIES: the INSERT of
\* an id that is already stored raises and leaves the table as it was.
remember(p, text, agent_id, importance, category) ==
    /\ pc[p] = "idle"
    /\ \E id \in MemoryIds :
       \E out \in embed_query(text) :
         IF out.status = "error" \/ id \in { m.memory_id : m \in memories }
         THEN /\ memories' = memories
              /\ Returns(p, [op |-> "remember", status |-> "error",
                             memory_id |-> id, agent_id |-> agent_id])
         ELSE /\ memories' = memories \cup
                    {[memory_id |-> id, agent_id |-> agent_id,
                      text |-> text, importance |-> importance,
                      category |-> category, embedding |-> out.vec,
                      accessed_at |-> now, access_count |-> 0]}
              /\ Returns(p, [op |-> "remember", status |-> "ok",
                             memory_id |-> id, agent_id |-> agent_id])
    /\ UNCHANGED <<avars, sessions, next_uuid, now, tvars, chunks, evars>>

\* MemoryService.recall, the SELECT and the result loop
recall_select(p, query, agent_id, max_results, min_score) ==
    /\ pc[p] = "idle"
    /\ \A m \in memories : m.access_count < MaxAccess
    /\ \E out \in embed_query(query), zd \in ZeroNormDistances :
         \E rows \in recall_rows(out.vec, agent_id, max_results, zd) :
            IF out.status = "error" \/ rows_raise(rows, out.vec, zd)
            THEN Returns(p, [op |-> "recall", status |-> "error",
                             filter |-> agent_id, max_results |-> max_results,
                             min_score |-> min_score, qvec |-> NullVector,
                             results |-> <<>>])
            ELSE /\ pc' = [pc EXCEPT ![p] = "recall_update"]
                 /\ loc' = [loc EXCEPT ![p] =
                              [op |-> "recall", status |-> "ok",
                               filter |-> agent_id, max_results |-> max_results,
                               min_score |-> min_score, qvec |-> out.vec,
                               results |-> recall_results(rows, out.vec, min_score, zd)]]
    /\ UNCHANGED <<avars, sessions, next_uuid, now, tvars, mvars, evars>>

touch_all(rows, ids, ts) ==
    { IF ids # {}
      THEN [m EXCEPT !.accessed_at = ts, !.access_count = m.access_count + 1]
      ELSE m : m \in rows }

\* UPDATE ... SET accessed_at = CURRENT_TIMESTAMP, access_count = access_count + 1
\* WHERE memory_id IN (ids)
touch(rows, ids, ts) ==
    { IF m.memory_id \in ids
      THEN [m EXCEPT !.accessed_at = ts, !.access_count = m.access_count + 1]
      ELSE m : m \in rows }

\* an UPDATE that writes back the access_count the SELECT had read, plus one
recall_update_stale(p) ==
    /\ pc[p] = "recall_update"
    /\ memories' =
          { IF \E i \in 1..Len(loc[p].results) :
                  loc[p].results[i].memory_id = m.memory_id
            THEN LET i == CHOOSE i \in 1..Len(loc[p].results) :
                              loc[p].results[i].memory_id = m.memory_id
                 IN  [m EXCEPT !.accessed_at = now,
                               !.access_count = loc[p].results[i].access_count + 1]
            ELSE m : m \in memories }
    /\ pc' = [pc EXCEPT ![p] = "return"]
    /\ UNCHANGED <<avars, sessions, loc, next_uuid, now, tvars, chunks, evars>>

\* MemoryService.recall, 'if memory_ids:' the UPDATE and the commit, return
recall_update(p) ==
    /\ pc[p] = "recall_update"
    /\ memories' = touch(memories, memory_ids_of(loc[p].results), now)
    /\ pc' = [pc EXCEPT ![p] = "return"]
    /\ UNCHANGED <<avars, sessions, loc, next_uuid, now, tvars, chunks, evars>>

\* SELECT COUNT(*) FROM ORACLAW_MEMORIES WHERE agent_id = :agent_id
memory_count(agent_id) == Cardinality({ m \in memories : m.agent_id = agent_id })

\* the memory_id and agent_id columns of ORACLAW_MEMORIES
memory_keys == { <<m.memory_id, m.agent_id>> : m \in memories }

\* MemoryService.forget
forget(p, memory_id) ==
    /\ pc[p] = "idle"
    /\ memories' = { m \in memories : m.memory_id # memory_id }
    /\ Returns(p, [op |-> "forget", status |-> "ok", memory_id |-> memory_id,
                   deleted |-> Cardinality({ m \in memories : m.memory_id = memory_id })])
    /\ UNCHANGED <<avars, sessions, next_uuid, now, tvars, chunks, evars>>

\* MemoryService.count_memories
count_memories(p, agent_id) ==
    /\ pc[p] = "idle"
    /\ Returns(p, [op |-> "count_memories", status |-> "ok", agent_id |-> agent_id,
                   count |-> Cardinality({ m \in memories : m.agent_id = agent_id })])
    /\ UNCHANGED <<avars, sessions, next_uuid, now, tvars, mvars, evars>>

\* the files a sync request lists
FileIds == {"f1", "f2"}
FileHashes == {"h", "h2"}
FileSyncEntries ==
    [file_id : FileIds, path : Paths, source : {"memory"}, hash : FileHashes,
     chunk_count : {0}]
FileLists ==
    {<<>>} \cup { <<f>> : f \in FileSyncEntries }
           \cup { <<f, g>> : f \in FileSyncEntries, g \in FileSyncEntries }

\* the table after MERGE INTO ORACLAW_FILES ... ON (file_id) for each file of fs
sync_files_rows(F, fs) ==
    { r \in F : \A i \in 1..Len(fs) : r.file_id # fs[i].file_id }
        \cup { fs[i] : i \in { i \in 1..Len(fs) :
                 \A j \in (i + 1)..Len(fs) : fs[j].file_id # fs[i].file_id } }

\* a connection on which every statement commits as it completes
release_autocommitted(committed, txn) == txn

\* the block of `async with self.pool.acquire()` is left by an exception
\* before conn.commit(): the connection goes back to the pool and its open
\* transaction, with the MERGEs that ran (txn), is rolled back
release_uncommitted(committed, txn) == committed

\* MemoryService.sync_files: one MERGE per file, one commit after the loop.
\* fail_at = 0: no statement raises; fail_at = i: the MERGE of files[i]
\* raises after the MERGEs of the files before it ran in the transaction.
sync_files(p, fs, fail_at) ==
    /\ pc[p] = "idle"
    /\ LET ran == IF fail_at = 0 THEN fs ELSE SubSeq(fs, 1, fail_at - 1)
           txn == sync_files_rows(files, ran)
       IN  IF fail_at # 0
           THEN /\ files' = release_uncommitted(files, txn)
                /\ Returns(p, [op |-> "sync_files", status |-> "error",
                               fs |-> fs, fail_at |-> fail_at, upserted |-> 0])
           ELSE /\ files' = txn
                /\ Returns(p, [op |-> "sync_files", status |-> "ok",
                               fs |-> fs, fail_at |-> 0, upserted |-> Len(fs)])
    /\ UNCHANGED <<pool, pvars, embedding_cache, sessions, next_uuid, now, tvars, mvars, evars>>

\* the rows of the SQLite embedding_cache table a migration reads
CacheKeys == {"e1"}
CacheRows == [cache_key : CacheKeys, text_hash : Hashes, model : Models]

\* SqliteToOracleMigrator._migrate_embedding_cache for one source row:
\* MERGE INTO ORACLAW_EMBEDDING_CACHE ... ON (cache_key), commit
migrate_embedding_cache(p, row) ==
    /\ pc[p] = "idle"
    /\ embedding_cache' =
          { r \in embedding_cache : r.cache_key # row.cache_key } \cup {row}
    /\ Returns(p, [op |-> "migrate_embedding_cache", status |-> "ok",
                   cache_migrated |-> 1])
    /\ UNCHANGED <<pool, pvars, files, sessions, next_uuid, now, tvars, mvars, evars>>

\* the tables get_status counts, in the order of its loop
StatusTables ==
    <<"ORACLAW_CHUNKS", "ORACLAW_FILES", "ORACLAW_MEMORIES",
      "ORACLAW_EMBEDDING_CACHE">>
StatusTableSet == { StatusTables[i] : i \in 1..Len(StatusTables) }

\* SELECT COUNT(*) FROM table
table_count(table) ==
    CASE table = "ORACLAW_CHUNKS"   -> Cardinality(chunks)
      [] table = "ORACLAW_FILES"    -> Cardinality(files)
      [] table = "ORACLAW_MEMORIES" -> Cardinality(memories)
      [] OTHER                      -> Cardinality(embedding_cache)

\* one pass of the loop of get_status: the count, or 0 when the query raises
status_count(table, failing) ==
    IF table \in failing THEN 0 ELSE table_count(table)

get_status_abort(p, failing) ==
    /\ pc[p] = "idle"
    /\ LET cnt(i) == IF \E j \in 1..i : StatusTables[j] \in failing
                     THEN 0 ELSE table_count(StatusTables[i])
       IN  Returns(p, [op |-> "get_status", status |-> "ok",
                       chunk_count |-> cnt(1), file_count |-> cnt(2),
                       memory_count |-> cnt(3), cache_count |-> cnt(4),
                       failing |-> failing])
    /\ UNCHANGED <<avars, sessions, next_uuid, now, tvars, mvars, evars>>

\* MemoryService.get_status: SELECT COUNT(*) of each table in turn; failing is
\* the set of tables whose count query raises, kept beside the reply
get_status(p, failing) ==
    /\ pc[p] = "idle"
    /\ Returns(p, [op |-> "get_status", status |-> "ok",
                   chunk_count |-> status_count("ORACLAW_CHUNKS", failing),
                   file_count |-> status_count("ORACLAW_FILES", failing),
                   memory_count |-> status_count("ORACLAW_MEMORIES", failing),
                   cache_count |-> status_count("ORACLAW_EMBEDDING_CACHE", failing),
                   failing |-> failing])
    /\ UNCHANGED <<avars, sessions, next_uuid, now, tvars, mvars, evars>>

\* time passes at the store
tick ==
    /\ now < MaxClock
    /\ now' = now + 1
    /\ UNCHANGED <<avars, sessions, pc, loc, next_uuid, tvars, mvars, evars>>

MemoryStep(p) ==
    \/ \E t \in Texts, a \in Agents, i \in Importances, c \in Categories :
          remember(p, t, a, i, c)
    \/ \E q \in Texts, a \in Agents, k \in MaxResultsValues, ms \in MinScores :
          recall_select(p, q, a, k, ms)
    \/ recall_update(p)
    \/ \E id \in MemoryIds : forget(p, id)
    \/ \E a \in Agents : count_memories(p, a)

----------------------------------------------------------------------------
(* SessionService.  A row is session_key, session_id, agent_id, updated_at  *)
(* (epoch time supplied by the caller), session_data (the JSON text of the   *)
(* caller's dict), channel and label ("None" is Python's None / SQL NULL).   *)

SessionKeys == {"k1", "k2", "k3"}
UpdatedAts == {0, 1, 2}
MaxAges == {0, 1}
MaxCounts == {0, 1, 2}

\* session_data dicts, written as key paths: <<>> is {} and <<"a">> is {"a": {}}
SessionData == {<<>>, <<"a">>}
Channels == {"None", "web"}
Labels == {"None", "main"}

\* json.dumps of a session_data dict
json_dumps(d) == IF d = <<>> THEN "{}" ELSE "{\"a\": {}}"

\* json.loads: the parsed value, or JSONDecodeError
json_loads(text) ==
    CASE text = "{}"           -> [ok |-> TRUE, value |-> <<>>]
      [] text = "{\"a\": {}}"  -> [ok |-> TRUE, value |-> <<"a">>]
      [] OTHER                 -> [ok |-> FALSE, value |-> <<>>]

\* the sessions the maintenance scenarios upsert
SessionEntries ==
    [session_key : SessionKeys, session_id : {"s1"}, agent_id : Agents,
     updated_at : UpdatedAts, session_data : {<<>>}, channel : {"None"},
     label : {"None"}]

\* the sessions the keyed read/write scenarios upsert
DataKeys == {"k1", "k2"}
DataUpdatedAts == {0, 1}
SessionEntriesData ==
    [session_key : DataKeys, session_id : {"s1"}, agent_id : Agents,
     updated_at : DataUpdatedAts, session_data : SessionData,
     channel : Channels, label : Labels]

AgentSessions(S, agent_id) == { r \in S : r.agent_id = agent_id }

\* the bind parameters of the MERGE: session_data goes in as json.dumps text
session_row(session) ==
    [session EXCEPT !.session_data = json_dumps(session.session_data)]

\* _row_to_session: session_data parsed back, {} when it does not parse
row_to_session(row) ==
    [row EXCEPT !.session_data =
        IF json_loads(row.session_data).ok
        THEN json_loads(row.session_data).value
        ELSE <<>>]

\* SessionService.get_session: the session dict, or nothing (None)
get_session(session_key) ==
    { row_to_session(r) : r \in { r \in sessions : r.session_key = session_key } }

\* the route GET /api/sessions/{session_key}: 404 when get_session finds nothing
get_session_route(session_key) ==
    IF get_session(session_key) = {} THEN 404 ELSE 200

upsert_session_rows_insert_only(S, session) ==
    IF \E r \in S : r.session_key = session.session_key
    THEN S
    ELSE S \cup {session_row(session)}

\* the table after MERGE INTO ORACLAW_SESSIONS ... ON (session_key)
upsert_session_rows(S, session) ==
    { r \in S : r.session_key # session.session_key } \cup {session_row(session)}

\* SessionService.upsert_session: MERGE by session_key, commit; the returned
\* record keeps the request beside the reply
upsert_session(p, session) ==
    /\ pc[p] = "idle"
    /\ sessions' = upsert_session_rows(sessions, session)
    /\ Returns(p, [op |-> "upsert_session", status |-> "ok",
                   session_key |-> session.session_key, session |-> session])
    /\ UNCHANGED <<avars, next_uuid, now, tvars, mvars, evars>>

\* updates dicts: present is the set of keys in the dict; a key that is not
\* present carries a fixed filler value that no statement reads
UpdateFields == {"session_data", "updated_at", "channel", "label"}
UpdateFiller ==
    [session_data |-> <<>>, updated_at |-> 0, channel |-> "None", label |-> "None"]
UpdateRequests ==
    { u \in [present : SUBSET UpdateFields, session_data : SessionData,
             updated_at : UpdatedAts, channel : Channels, label : Labels] :
        \A f \in UpdateFields \ u.present : u[f] = UpdateFiller[f] }

update_session_rows_all_fields(S, session_key, updates) ==
    { IF r.session_key = session_key
      THEN [r EXCEPT !.session_data = json_dumps(updates.session_data),
                     !.updated_at = updates.updated_at,
                     !.channel = updates.channel,
                     !.label = updates.label]
      ELSE r : r \in S }

\* the table after UPDATE ORACLAW_SESSIONS SET <one clause per key present>
\* WHERE session_key = :session_key
update_session_rows(S, session_key, updates) ==
    { IF r.session_key = session_key
      THEN [r EXCEPT
              !.session_data = IF "session_data" \in updates.present
                               THEN json_dumps(updates.session_data) ELSE @,
              !.updated_at = IF "updated_at" \in updates.present
                             THEN updates.updated_at ELSE @,
              !.channel = IF "channel" \in updates.present
                          THEN updates.channel ELSE @,
              !.label = IF "label" \in updates.present
                        THEN updates.label ELSE @]
      ELSE r : r \in S }

\* SessionService.update_session: statements is the number of SQL statements
\* the call executed; the returned record keeps the request beside the reply
update_session(p, session_key, updates) ==
    /\ pc[p] = "idle"
    /\ IF updates.present = {}
       THEN /\ sessions' = sessions
            /\ Returns(p, [op |-> "update_session", status |-> "ok",
                           session_key |-> session_key, updated |-> FALSE,
                           reason |-> "no fields to update", statements |-> 0,
                           updates |-> updates])
       ELSE /\ sessions' = update_session_rows(sessions, session_key, updates)
            /\ Returns(p, [op |-> "update_session", status |-> "ok",
                           session_key |-> session_key,
                           updated |-> \E r \in sessions :
                                          r.session_key = session_key,
                           reason |-> "", statements |-> 1,
                           updates |-> updates])
    /\ UNCHANGED <<avars, next_uuid, now, tvars, mvars, evars>>

\* SessionService.delete_session(session_key); the returned record keeps the
\* requested key beside the reply {"deleted": rowcount}
delete_session_key(p, session_key) ==
    /\ pc[p] = "idle"
    /\ sessions' = { r \in sessions : r.session_key # session_key }
    /\ Returns(p, [op |-> "delete_session_key", status |-> "ok",
                   session_key |-> session_key,
                   deleted |-> Cardinality({ r \in sessions :
                                                r.session_key = session_key })])
    /\ UNCHANGED <<avars, next_uuid, now, tvars, mvars, evars>>

\* the row lists get_sessions can return: ORDER BY updated_at DESC
get_sessions(agent_id) ==
    SortedSeqs(AgentSessions(sessions, agent_id),
               [r \in AgentSessions(sessions, agent_id) |-> 0 - r.updated_at])

prune_stale_rows_inclusive(S, agent_id, cutoff) ==
    { r \in S : ~(r.agent_id = agent_id /\ r.updated_at <= cutoff) }

\* the table after DELETE ... WHERE agent_id = :agent_id AND updated_at < :cutoff
prune_stale_rows(S, agent_id, cutoff) ==
    { r \in S : ~(r.agent_id = agent_id /\ r.updated_at < cutoff) }

\* cutoff = int(time.time() * 1000) - max_age_ms
prune_cutoff(max_age_ms) == now - max_age_ms

\* SessionService.prune_stale: compute the cutoff, DELETE, commit
prune_stale(p, agent_id, max_age_ms) ==
    /\ pc[p] = "idle"
    /\ sessions' = prune_stale_rows(sessions, agent_id, prune_cutoff(max_age_ms))
    /\ Returns(p, [op |-> "prune_stale", status |-> "ok",
                   pruned |-> Cardinality(sessions) - Cardinality(sessions'),
                   agent_id |-> agent_id, max_age_ms |-> max_age_ms])
    /\ UNCHANGED <<avars, next_uuid, now, tvars, mvars, evars>>

cap_count_rows_oldest(S, agent_id, max_count) ==
    LET mine == AgentSessions(S, agent_id)
        key  == [r \in mine |-> r.updated_at]
    IN  { (S \ mine) \cup { kept[i] : i \in 1..Len(kept) } :
            kept \in fetch_first(mine, key, max_count) }

cap_count_rows_one(S, agent_id, max_count) ==
    LET mine == AgentSessions(S, agent_id)
        key  == [r \in mine |-> r.updated_at]
    IN  IF Cardinality(mine) <= max_count THEN {S}
        ELSE { S \ { gone[i] : i \in 1..Len(gone) } :
                 gone \in fetch_first(mine, key, 1) }

\* the tables the DELETE of cap_count can leave: the rows of the agent whose
\* session_key is NOT IN the first max_count keys by updated_at DESC are gone
cap_count_rows(S, agent_id, max_count) ==
    LET mine == AgentSessions(S, agent_id)
        key  == [r \in mine |-> 0 - r.updated_at]
    IN  { (S \ mine) \cup { kept[i] : i \in 1..Len(kept) } :
            kept \in fetch_first(mine, key, max_count) }

\* SessionService.cap_count: the DELETE, removed = rowcount, commit
cap_count(p, agent_id, max_count) ==
    /\ pc[p] = "idle"
    /\ sessions' \in cap_count_rows(sessions, agent_id, max_count)
    /\ Returns(p, [op |-> "cap_count", status |-> "ok",
                   removed |-> Cardinality(sessions) - Cardinality(sessions'),
                   agent_id |-> agent_id, max_count |-> max_count])
    /\ UNCHANGED <<avars, next_uuid, now, tvars, mvars, evars>>

SessionStep(p) ==
    \/ \E session \in SessionEntries : upsert_session(p, session)
    \/ \E k \in SessionKeys,
          u \in { u \in UpdateRequests : u.present \subseteq {"updated_at"} } :
          update_session(p, k, u)
    \/ \E k \in SessionKeys : delete_session_key(p, k)
    \/ \E a \in Agents, age \in MaxAges : prune_stale(p, a, age)
    \/ \E a \in Agents, n \in MaxCounts : cap_count(p, a, n)

DataUpdateRequests == { u \in UpdateRequests : u.updated_at \in DataUpdatedAts }

\* keyed reads and writes with every field varying
SessionDataStep(p) ==
    \/ \E session \in SessionEntriesData : upsert_session(p, session)
    \/ \E k \in DataKeys,
          u \in DataUpdateRequests : update_session(p, k, u)
    \/ \E k \in DataKeys : delete_session_key(p, k)

----------------------------------------------------------------------------
(* The HTTP routes.  lifespan constructs the four services only when         *)
(* create_pool succeeded; otherwise app.state holds None for each of them.   *)

embedding_service == IF pool = "None" THEN "None" ELSE "EmbeddingService"
memory_service == IF pool = "None" THEN "None" ELSE "MemoryService"
session_service == IF pool = "None" THEN "None" ELSE "SessionService"
transcript_service == IF pool = "None" THEN "None" ELSE "TranscriptService"

\* OraclawSettings.oracle_pool_min / oracle_pool_max
oracle_pool_min == 2
oracle_pool_max == 10

MemoryEndpoints ==
    {"POST /api/memory/search", "POST /api/memory/chunks",
     "POST /api/memory/chunks/batch", "DELETE /api/memory/chunks/{chunk_id}",
     "POST /api/memory/files/sync", "GET /api/memory/status",
     "POST /api/memory/remember", "POST /api/memory/recall",
     "DELETE /api/memory/forget/{memory_id}", "GET /api/memory/count"}
SessionEndpoints ==
    {"GET /api/sessions/", "GET /api/sessions/{session_key}",
     "PUT /api/sessions/", "PATCH /api/sessions/{session_key}",
     "DELETE /api/sessions/{session_key}", "POST /api/sessions/prune",
     "POST /api/sessions/cap"}
TranscriptEndpoints ==
    {"POST /api/transcripts/", "GET /api/transcripts/{session_id}",
     "GET /api/transcripts/{session_id}/header",
     "DELETE /api/transcripts/{session_id}"}
MigrateEndpoints ==
    {"POST /api/migrate/sqlite", "POST /api/migrate/sessions",
     "POST /api/migrate/transcripts"}

\* raise HTTPException(status_code=503, detail=...): the route ends before
\* it calls a service or the store
unavailable(p, endpoint, detail) ==
    /\ pc[p] = "idle"
    /\ Returns(p, [op |-> "route", endpoint |-> endpoint, http |-> 503,
                   detail |-> detail])
    /\ UNCHANGED <<avars, sessions, next_uuid, now, tvars, mvars, evars>>

memory_handler(p, endpoint) ==
    \/ /\ endpoint = "POST /api/memory/search"
       /\ \E q \in Texts, k \in MaxResultsValues, ms \in MinScores,
             src \in SourceFilters : search(p, q, k, ms, src)
    \/ /\ endpoint = "POST /api/memory/chunks"
       /\ \E chunk \in ChunkRequests : store_chunk(p, chunk)
    \/ /\ endpoint = "POST /api/memory/chunks/batch"
       /\ \E input \in BatchInputs : store_chunks_batch_begin(p, input)
    \/ /\ endpoint = "DELETE /api/memory/chunks/{chunk_id}"
       /\ \E id \in ChunkIds : delete_chunk(p, id)
    \/ /\ endpoint = "POST /api/memory/files/sync"
       /\ \E fs \in FileLists : \E fail_at \in 0..Len(fs) : sync_files(p, fs, fail_at)
    \/ /\ endpoint = "GET /api/memory/status"
       /\ \E failing \in SUBSET StatusTableSet : get_status(p, failing)
    \/ /\ endpoint = "POST /api/memory/remember"
       /\ \E t \in Texts, a \in Agents, i \in Importances, c \in Categories :
             remember(p, t, a, i, c)
    \/ /\ endpoint = "POST /api/memory/recall"
       /\ \E q \in Texts, a \in Agents, k \in MaxResultsValues, ms \in MinScores :
             recall_select(p, q, a, k, ms)
    \/ /\ endpoint = "DELETE /api/memory/forget/{memory_id}"
       /\ \E id \in MemoryIds : forget(p, id)
    \/ /\ endpoint = "GET /api/memory/count"
       /\ \E a \in Agents : count_memories(p, a)

\* every route of api/memory.py: _get_memory_service, then the service method
memory_route(p, endpoint) ==
    IF memory_service = "None"
    THEN unavailable(p, endpoint, "Memory service not available")
    ELSE memory_handler(p, endpoint)

\* GET /api/sessions/: get_sessions and the count of the list
list_sessions(p, agent_id) ==
    /\ pc[p] = "idle"
    /\ \E rows \in get_sessions(agent_id) :
          Returns(p, [op |-> "list_sessions", http |-> 200,
                      sessions |-> [i \in 1..Len(rows) |-> row_to_session(rows[i])],
                      count |-> Len(rows)])
    /\ UNCHANGED <<avars, sessions, next_uuid, now, tvars, mvars, evars>>

\* GET /api/sessions/{session_key}: the session, or 404
get_session_request(p, session_key) ==
    /\ pc[p] = "idle"
    /\ Returns(p, [op |-> "get_session", http |-> get_session_route(session_key),
                   session |-> get_session(session_key)])
    /\ UNCHANGED <<avars, sessions, next_uuid, now, tvars, mvars, evars>>

session_handler(p, endpoint) ==
    \/ /\ endpoint = "GET /api/sessions/"
       /\ \E a \in Agents : list_sessions(p, a)
    \/ /\ endpoint = "GET /api/sessions/{session_key}"
       /\ \E k \in SessionKeys : get_session_request(p, k)
    \/ /\ endpoint = "PUT /api/sessions/"
       /\ \E session \in SessionEntriesData : upsert_session(p, session)
    \/ /\ endpoint = "PATCH /api/sessions/{session_key}"
       /\ \E k \in SessionKeys, u \in UpdateRequests : update_session(p, k, u)
    \/ /\ endpoint = "DELETE /api/sessions/{session_key}"
       /\ \E k \in SessionKeys : delete_session_key(p, k)
    \/ /\ endpoint = "POST /api/sessions/prune"
       /\ \E a \in Agents, age \in MaxAges : prune_stale(p, a, age)
    \/ /\ endpoint = "POST /api/sessions/cap"
       /\ \E a \in Agents, n \in MaxCounts : cap_count(p, a, n)

\* every route of api/sessions.py: _get_session_service, then the service method
session_route(p, endpoint) ==
    IF session_service = "None"
    THEN unavailable(p, endpoint, "Session service not available")
    ELSE session_handler(p, endpoint)

\* GET /api/transcripts/{session_id}: the page and its length
get_events_request(p, s, offset, limit) ==
    /\ pc[p] = "idle"
    /\ \E page \in get_events(s, offset, limit) :
          Returns(p, [op |-> "get_events", http |-> 200, events |-> page,
                      count |-> Len(page)])
    /\ UNCHANGED <<avars, sessions, next_uuid, now, tvars, mvars, evars>>

\* GET /api/transcripts/{session_id}/header: the header, or 404
get_header_request(p, s) ==
    /\ pc[p] = "idle"
    /\ IF get_header(s) = {}
       THEN Returns(p, [op |-> "get_header", http |-> 404, header |-> {}])
       ELSE \E h \in get_header(s) :
               Returns(p, [op |-> "get_header", http |-> 200, header |-> {h}])
    /\ UNCHANGED <<avars, sessions, next_uuid, now, tvars, mvars, evars>>

transcript_handler(p, endpoint) ==
    \/ /\ endpoint = "POST /api/transcripts/"
       /\ \E s \in Sessions, a \in Agents, t \in EventTypes : append_select(p, s, a, t)
    \/ /\ endpoint = "GET /api/transcripts/{session_id}"
       /\ \E s \in Sessions, offset \in 0..MaxEvents, limit \in 0..MaxEvents :
             get_events_request(p, s, offset, limit)
    \/ /\ endpoint = "GET /api/transcripts/{session_id}/header"
       /\ \E s \in Sessions : get_header_request(p, s)
    \/ /\ endpoint = "DELETE /api/transcripts/{session_id}"
       /\ \E s \in Sessions : delete_session(p, s)

\* every route of api/transcripts.py: _get_transcript_service, then the method
transcript_route(p, endpoint) ==
    IF transcript_service = "None"
    THEN unavailable(p, endpoint, "Transcript service not available")
    ELSE transcript_handler(p, endpoint)

\* POST /api/init: 503 without a pool; otherwise the schema is created and
\* the provider is set up by load_onnx_model and initialize
init_route(p) ==
    IF pool = "None"
    THEN unavailable(p, "POST /api/init", "Database pool not available")
    ELSE \/ \E conn_ok \in BOOLEAN, loaded \in BOOLEAN :
               load_onnx_model(p, conn_ok, loaded)
         \/ \E reachable \in BOOLEAN, conn_ok \in BOOLEAN,
               probe \in ProbeOutcomes, load_ok \in BOOLEAN :
               initialize(p, reachable, conn_ok, probe, load_ok)

\* the events of a transcript file: lists of one or two events
FileEvents == [agent_id : Agents, event_type : EventTypes]
EventLists ==
    { <<e>> : e \in FileEvents } \cup { <<e, f>> : e \in FileEvents, f \in FileEvents }

\* TranscriptsMigrator.migrate for a file of session s: _insert_events reads
\* next_seq = MAX(sequence_num) + 1 once, then INSERTs event i (counted from
\* 0) with sequence_num next_seq + i; an INSERT that raises (failed holds
\* its position) is recorded in the status and the loop goes on; one commit
migrate_transcripts(p, s, events, failed) ==
    /\ pc[p] = "idle"
    /\ next_uuid + Len(events) - 1 <= MaxEvents
    /\ LET next_seq == next_seq_num(s)
       IN  transcripts' = transcripts \cup
               { [id |-> next_uuid + (i - 1), session_id |-> s,
                  agent_id |-> events[i].agent_id,
                  sequence_num |-> next_seq + (i - 1),
                  event_type |-> events[i].event_type] :
                 i \in (1..Len(events)) \ failed }
    /\ next_uuid' = next_uuid + Len(events)
    /\ Returns(p, [op |-> "migrate_transcripts", status |-> "completed",
                   session_id |-> s, events_total |-> Len(events),
                   events_migrated |-> Len(events) - Cardinality(failed),
                   errors |-> failed])
    /\ UNCHANGED <<avars, sessions, now, mvars, evars>>

\* the migrators behind the POST routes of api/migration.py, each for a
\* source that holds one entry (SessionsMigrator runs the MERGE of upsert_session)
migrate_handler(p, endpoint) ==
    \/ /\ endpoint = "POST /api/migrate/sqlite"
       /\ \E row \in CacheRows : migrate_embedding_cache(p, row)
    \/ /\ endpoint = "POST /api/migrate/sessions"
       /\ \E session \in SessionEntriesData : upsert_session(p, session)
    \/ /\ endpoint = "POST /api/migrate/transcripts"
       /\ \E s \in Sessions, events \in EventLists :
          \E failed \in SUBSET (1..Len(events)) :
             migrate_transcripts(p, s, events, failed)

\* POST /api/migrate/{sqlite,sessions,transcripts}: _ensure_pool, then the migrator
migrate_route(p, endpoint) ==
    IF pool = "None"
    THEN unavailable(p, endpoint, "Database pool not available")
    ELSE migrate_handler(p, endpoint)

\* GET /api/migrate/status: reads the module's _active_migrators, which only
\* the POST routes fill after _ensure_pool; it consults neither pool nor service
migration_status(p) ==
    /\ pc[p] = "idle"
    /\ \E body \in IF pool = "None" THEN {"no active migrations"}
                   ELSE {"no active migrations", "statuses"} :
          Returns(p, [op |-> "route", endpoint |-> "GET /api/migrate/status",
                      http |-> 200, detail |-> body])
    /\ UNCHANGED <<avars, sessions, next_uuid, now, tvars, mvars, evars>>

\* GET /api/health: pool figures (zeros without a pool) and the provider's state
health(p) ==
    /\ pc[p] = "idle"
    /\ Returns(p, [op |-> "health", endpoint |-> "GET /api/health", http |-> 200,
                   status |-> "ok",
                   pool_min |-> IF pool = "None" THEN 0 ELSE oracle_pool_min,
                   pool_max |-> IF pool = "None" THEN 0 ELSE pool_max,
                   loaded |-> embedding_service # "None" /\ mode # "None",
                   mode |-> IF embedding_service = "None" THEN "None" ELSE mode])
    /\ UNCHANGED <<avars, sessions, next_uuid, now, tvars, mvars, evars>>

RouteStep(p) ==
    \/ \E endpoint \in MemoryEndpoints : memory_route(p, endpoint)
    \/ \E endpoint \in SessionEndpoints : session_route(p, endpoint)
    \/ \E endpoint \in TranscriptEndpoints : transcript_route(p, endpoint)
    \/ init_route(p)
    \/ \E endpoint \in MigrateEndpoints : migrate_route(p, endpoint)
    \/ migration_status(p)
    \/ health(p)

----------------------------------------------------------------------------
(* The connection pool.  Every `async with pool.acquire() as conn` is an     *)
(* acquire step (which waits while pool.busy = pool.max) and a release step  *)
(* at the end of its block; an exception inside the block leaves through    *)
(* __aexit__ of every enclosing block, which releases its connection.  The   *)
(* script of an operation lists, in program order, its acquire and release   *)
(* steps, its embedding calls and its statements; what the statements do to  *)
(* the tables is the subject of the handler actions above.                   *)

\* values of ORACLE_POOL_MAX examined
PoolSizes == {1, 2}

PoolOps ==
    {"search", "store_chunk", "remember", "recall", "append", "forget",
     "init_schema"}

connection_script(op) ==
    CASE op = "search" ->
            <<"acquire", "embed", "execute", "release">>
      [] op = "store_chunk" ->
            <<"acquire", "embed", "execute", "execute", "release">>
      [] op = "remember" ->
            <<"embed", "acquire", "execute", "execute", "release">>
      [] op = "recall" ->
            <<"embed", "acquire", "execute", "execute", "execute", "release">>
      [] op = "append" ->
            <<"acquire", "execute", "execute", "execute", "release">>
      [] op = "forget" ->
            <<"acquire", "execute", "execute", "release">>
      [] op = "init_schema" ->
            \* the DDL loops catch their errors; set_schema_version(pool)
            \* is called inside the block of init_schema
            <<"acquire", "execute_caught",
              "acquire", "execute", "execute", "release",
              "execute", "release">>

\* the step the handler of p is at, "none" outside a scripted operation
current_step(p) ==
    IF pc[p] = "running" THEN connection_script(loc[p].op)[loc[p].step]
    ELSE "none"

advance(p) == loc' = [loc EXCEPT ![p].step = loc[p].step + 1]

\* a request enters one of the operations
begin_operation(p, op) ==
    /\ pc[p] = "idle"
    /\ pc' = [pc EXCEPT ![p] = "running"]
    /\ loc' = [loc EXCEPT ![p] = [op |-> op, step |-> 1]]
    /\ UNCHANGED <<avars, sessions, next_uuid, now, tvars, mvars, evars>>

\* an exception leaves the blocks without releasing their connections
raise_exit_leaking(p) ==
    /\ Returns(p, [op |-> loc[p].op, status |-> "error", released |-> 0])
    /\ UNCHANGED <<busy, held>>

\* an exception propagates out of the operation: __aexit__ of each enclosing
\* `async with` block releases the connection of that block
raise_exit(p) ==
    /\ busy' = busy - held[p]
    /\ held' = [held EXCEPT ![p] = 0]
    /\ Returns(p, [op |-> loc[p].op, status |-> "error", released |-> held[p]])

\* pool.acquire(): waits while every connection is busy; ok = FALSE: the
\* pool cannot open a connection and acquire raises
acquire(p, ok) ==
    /\ current_step(p) = "acquire"
    /\ busy < pool_max
    /\ IF ok
       THEN /\ busy' = busy + 1
            /\ held' = [held EXCEPT ![p] = held[p] + 1]
            /\ advance(p)
            /\ pc' = pc
       ELSE raise_exit(p)
    /\ UNCHANGED <<pool, pool_max, files, embedding_cache, sessions, next_uuid, now,
                   tvars, mvars, evars>>

\* await embedding_service.embed_query(...): returns, or raises
embed_call(p, ok) ==
    /\ current_step(p) = "embed"
    /\ IF ok
       THEN /\ advance(p)
            /\ UNCHANGED <<pc, busy, held>>
       ELSE raise_exit(p)
    /\ UNCHANGED <<pool, pool_max, files, embedding_cache, sessions, next_uuid, now,
                   tvars, mvars, evars>>

\* await cursor.execute(...) / conn.commit(): returns, or raises; the DDL
\* loops of init_schema catch what their statements raise
execute(p, ok) ==
    /\ current_step(p) \in {"execute", "execute_caught"}
    /\ IF ok \/ current_step(p) = "execute_caught"
       THEN /\ advance(p)
            /\ UNCHANGED <<pc, busy, held>>
       ELSE raise_exit(p)
    /\ UNCHANGED <<pool, pool_max, files, embedding_cache, sessions, next_uuid, now,
                   tvars, mvars, evars>>

\* the end of an `async with` block; after the outermost the method returns
release(p) ==
    /\ current_step(p) = "release"
    /\ busy' = busy - 1
    /\ held' = [held EXCEPT ![p] = held[p] - 1]
    /\ IF loc[p].step = Len(connection_script(loc[p].op))
       THEN Returns(p, [op |-> loc[p].op, status |-> "ok", released |-> 1])
       ELSE /\ advance(p)
            /\ pc' = pc
    /\ UNCHANGED <<pool, pool_max, files, embedding_cache, sessions, next_uuid, now,
                   tvars, mvars, evars>>

PoolStep(p) ==
    \/ \E op \in PoolOps : begin_operation(p, op)
    \/ \E ok \in BOOLEAN : acquire(p, ok)
    \/ \E ok \in BOOLEAN : embed_call(p, ok)
    \/ \E ok \in BOOLEAN : execute(p, ok)
    \/ release(p)

RECURSIVE SumHeld(_)
\* the connections held by the handlers of the processes in S
SumHeld(S) ==
    IF S = {} THEN 0
    ELSE LET q == CHOOSE q \in S : TRUE
         IN  held[q] + SumHeld(S \ {q})

\* the handler of p waits in pool.acquire()
waiting(p) == current_step(p) = "acquire" /\ busy = pool_max

----------------------------------------------------------------------------
(* The vector codec: _to_vector = array.array('f', embedding).              *)
(* A Python float is sign * m * 2^e; the inputs carry a significand of 27    *)
(* bits (2^26 <= m < 2^27, or m = 0), three bits more than the 24 a float32  *)
(* keeps, which is enough for every rounding case of the C conversion       *)
(* (below half, half, above half, carry into the next binade).               *)

RECURSIVE Pow2(_)
Pow2(n) == IF n = 0 THEN 1 ELSE 2 * Pow2(n - 1)

\* significands: exact in float32, below half, half with even and with odd
\* neighbour, above half, and all ones (rounds up into the next binade)
Significands ==
    {Pow2(26), Pow2(26) + 3, Pow2(26) + 4, Pow2(26) + 5, Pow2(26) + 12,
     Pow2(27) - 1}

\* exponents of the unit in the last place: values in [0.5, 1), [16, 32), [32, 64)
Exponents == {-27, -22, -21}

PyZero == [sign |-> 1, m |-> 0, e |-> 0]

PyFloats ==
    [sign : {1, -1}, m : Significands, e : Exponents] \cup {PyZero}

\* the embeddings handed to _to_vector: lists of 0, 1 or 2 floats
FloatLists ==
    {<<>>} \cup { <<x>> : x \in PyFloats } \cup
    { <<x, y>> : x \in PyFloats, y \in PyFloats }

\* a conversion that drops the low bits
to_float32_truncating(x) ==
    IF x.m = 0 THEN PyZero
    ELSE [sign |-> x.sign, m |-> x.m \div 8, e |-> x.e + 3]

\* the C conversion (float) of a double, as array.array('f') stores an item:
\* round to the nearest 24-bit significand, ties to even
to_float32(x) ==
    IF x.m = 0 THEN PyZero
    ELSE LET q  == x.m \div 8
             r  == x.m % 8
             up == r > 4 \/ (r = 4 /\ q % 2 = 1)
             q2 == IF up THEN q + 1 ELSE q
         IN  IF q2 = Pow2(24)
             THEN [sign |-> x.sign, m |-> Pow2(23), e |-> x.e + 4]
             ELSE [sign |-> x.sign, m |-> q2, e |-> x.e + 3]

\* _to_vector(embedding): one float32 item per element, in list order
to_vector(embedding) ==
    [i \in 1..Len(embedding) |-> to_float32(embedding[i])]

\* |x - f| in units of 2^(x.e), for a float32 f = to_float32(x) of the same sign
abs_diff_units(x, f) ==
    IF x.m = 0 THEN f.m
    ELSE LET fm == f.m * Pow2(f.e - x.e)
         IN  IF fm >= x.m THEN fm - x.m ELSE x.m - fm

\* |x - f| <= 1e-6, with |x - f| = d * 2^(x.e) and x.e < 0
within_1e6(x, f) ==
    \/ x.m = 0 /\ f.m = 0
    \/ x.m # 0 /\ f.sign = x.sign /\ abs_diff_units(x, f) * 1000000 <= Pow2(0 - x.e)

\* |x| < 32
below_32(x) == x.m = 0 \/ x.e <= -22

\* a caller builds its bind parameters: params[...] = _to_vector(embedding)
to_vector_call(p, embedding) ==
    /\ pc[p] = "idle"
    /\ Returns(p, [op |-> "_to_vector", embedding |-> embedding,
                   vector |-> to_vector(embedding)])
    /\ UNCHANGED <<avars, sessions, next_uuid, now, tvars, mvars, evars>>

----------------------------------------------------------------------------
(* Initial state and specifications *)

\* the state after startup, but for app.state.pool
InitState ==
    /\ pc = [p \in Procs |-> "idle"]
    /\ loc = [p \in Procs |-> NoLoc]
    /\ next_uuid = 1
    /\ now = 0
    /\ transcripts = {}
    /\ chunks = {}
    /\ memories = {}
    /\ sessions = {}
    /\ mode = "None"
    /\ sync_conn = "None"
    /\ model = "None"
    /\ onnx_registered = FALSE
    /\ open_conns = 0
    /\ files = {}
    /\ embedding_cache = {}
    /\ busy = 0
    /\ held = [p \in Procs |-> 0]

\* startup with the connection pool created, of the default size
Init == InitState /\ pool = "pool" /\ pool_max = oracle_pool_max

\* startup when create_pool raised: lifespan sets app.state.pool = None
InitNoPool == InitState /\ pool = "None" /\ pool_max = 0

\* startup with ORACLE_POOL_MAX set to a small size
InitSmallPool == InitState /\ pool = "pool" /\ pool_max \in PoolSizes

\* The service is shut down and started again: lifespan closes the provider
\* and a new EmbeddingService is constructed; the tables persist in the store.
restart ==
    /\ \A p \in Procs : pc[p] = "idle"
    /\ mode # "None"
    /\ mode' = "None"
    /\ sync_conn' = "None"
    /\ model' = "None"
    /\ open_conns' = 0
    /\ UNCHANGED <<avars, sessions, pc, loc, next_uuid, now, tvars, mvars, onnx_registered>>

\* no other handler is in progress: the requests are served one at a time
OthersIdle(p) == \A q \in Procs \ {p} : pc[q] = "idle"

\* transcript handlers, interleaved at every statement
NextT == \E p \in Procs : TranscriptStep(p) \/ api_return(p)

SpecT == Init /\ [][NextT]_vars

\* transcript handlers under the single-writer discipline
NextTSeq == \E p \in Procs : OthersIdle(p) /\ (TranscriptStep(p) \/ api_return(p))

SpecTSeq == Init /\ [][NextTSeq]_vars

\* the embedding provider, initialized any number of times
NextE == \E p \in Procs : OthersIdle(p) /\ (EmbeddingStep(p) \/ api_return(p))

SpecE == Init /\ [][NextE]_vars

\* The memory service, one request at a time.  The provider is initialized
\* at startup: while mode is None no row can be stored, so initialization
\* precedes every row; repeated initialization is the subject of SpecE.
\* ORACLAW_CHUNKS and ORACLAW_MEMORIES are read and written by disjoint
\* handlers, so the behaviours that populate one table at a time cover each
\* handler in every state of its own table.
NextMem ==
    \/ \E p \in Procs : OthersIdle(p) /\ memories = {} /\ ChunkStep(p)
    \/ \E p \in Procs : OthersIdle(p) /\ chunks = {} /\ MemoryStep(p)
    \/ \E p \in Procs : OthersIdle(p) /\ mode = "None" /\ EmbeddingStep(p)
    \/ \E p \in Procs : api_return(p)
    \/ tick

SpecMem == Init /\ [][NextMem]_vars

\* The long-term memories with the read-only handlers of the service
\* running between the memory handlers, one request at a time
NextAccess ==
    \/ \E p \in Procs : OthersIdle(p) /\ MemoryStep(p)
    \/ \E p \in Procs : OthersIdle(p) /\
          (\E q \in Texts, k \in MaxResultsValues, ms \in MinScores,
              src \in SourceFilters : search(p, q, k, ms, src))
    \/ \E p \in Procs : OthersIdle(p) /\
          (\E failing \in SUBSET {"ORACLAW_CHUNKS", "ORACLAW_MEMORIES"} :
              get_status(p, failing))
    \/ \E p \in Procs : OthersIdle(p) /\ mode = "None" /\ EmbeddingStep(p)
    \/ \E p \in Procs : api_return(p)
    \/ tick

SpecAccess == Init /\ [][NextAccess]_vars

\* The four tables get_status counts, written and counted one request at a time
StatusChunks == { c \in ChunkRequests : c.source = "memory" /\ c.text = "a" }

NextStatus ==
    \/ \E p \in Procs : OthersIdle(p) /\ mode = "None" /\
          (\E reachable \in BOOLEAN, conn_ok \in BOOLEAN,
              probe \in ProbeOutcomes, load_ok \in BOOLEAN :
              initialize(p, reachable, conn_ok, probe, load_ok))
    \/ \E p \in Procs : OthersIdle(p) /\
          (\E chunk \in StatusChunks : store_chunk(p, chunk))
    \/ \E p \in Procs : OthersIdle(p) /\ remember(p, "a", "x", 70, "other")
    \/ \E p \in Procs : OthersIdle(p) /\
          (\E fs \in FileLists : \E fail_at \in 0..Len(fs) : sync_files(p, fs, fail_at))
    \/ \E p \in Procs : OthersIdle(p) /\
          (\E row \in CacheRows : migrate_embedding_cache(p, row))
    \/ \E p \in Procs : OthersIdle(p) /\
          (\E failing \in SUBSET StatusTableSet : get_status(p, failing))
    \/ \E p \in Procs : api_return(p)

SpecStatus == Init /\ [][NextStatus]_vars

\* Batch stores of chunks, one request at a time
NextBatch ==
    \/ \E p \in Procs : OthersIdle(p) /\ BatchStep(p)
    \/ \E p \in Procs : OthersIdle(p) /\ (\E id \in ChunkIds : delete_chunk(p, id))
    \/ \E p \in Procs : OthersIdle(p) /\ mode = "None" /\ EmbeddingStep(p)
    \/ \E p \in Procs : api_return(p)

SpecBatch == Init /\ [][NextBatch]_vars

\* The session store, one request at a time
NextS ==
    \/ \E p \in Procs : OthersIdle(p) /\ SessionStep(p)
    \/ \E p \in Procs : api_return(p)
    \/ tick

SpecS == Init /\ [][NextS]_vars

\* The session store's keyed reads and writes, one request at a time
NextSData ==
    \/ \E p \in Procs : OthersIdle(p) /\ SessionDataStep(p)
    \/ \E p \in Procs : api_return(p)

SpecSData == Init /\ [][NextSData]_vars

\* no other request is at a point where it holds a response to deliver
OthersIdleOrInRecall(p) ==
    \A q \in Procs \ {p} : pc[q] \in {"idle", "recall_update"}

\* The long-term memories with requests running while another request is
\* between the SELECT and the UPDATE of recall, next to the sqlite migrator,
\* after the provider was initialized once
NextRemember ==
    \/ \E p \in Procs : OthersIdleOrInRecall(p) /\ MemoryStep(p)
    \/ \E p \in Procs : \E endpoint \in {"POST /api/migrate/sqlite"} :
          OthersIdleOrInRecall(p) /\ embedding_cache = {} /\ migrate_route(p, endpoint)
    \/ \E p \in Procs : OthersIdle(p) /\ mode = "None" /\
          (\E reachable \in BOOLEAN, conn_ok \in BOOLEAN, probe \in ProbeOutcomes,
              load_ok \in BOOLEAN : initialize(p, reachable, conn_ok, probe, load_ok))
    \/ \E p \in Procs : api_return(p)

SpecRemember == Init /\ [][NextRemember]_vars

\* The embedding provider from startup to shutdown: initialized any number
\* of times and used while the service runs, closed at shutdown
NextLifecycle ==
    \/ \E p \in Procs : pool = "pool" /\ OthersIdle(p) /\ EmbeddingStep(p)
    \/ \E p \in Procs : pool = "pool" /\ health(p)
    \/ \E p \in Procs : api_return(p)
    \/ shutdown

SpecLifecycle == Init /\ [][NextLifecycle]_vars

\* Concurrent embed_texts calls in database mode, after the provider was
\* initialized once
NextEmbedDb ==
    \/ \E p \in Procs : \E texts \in TextLists : embed_texts_db_begin(p, texts)
    \/ \E p \in Procs : \E outcome \in StatementOutcomes :
          embed_texts_db_statement(p, outcome)
    \/ \E p \in Procs : OthersIdle(p) /\ mode = "None" /\
          (\/ \E conn_ok \in BOOLEAN, loaded \in BOOLEAN :
                 load_onnx_model(p, conn_ok, loaded)
           \/ \E reachable \in BOOLEAN, conn_ok \in BOOLEAN,
                 probe \in ProbeOutcomes, load_ok \in BOOLEAN :
                 initialize(p, reachable, conn_ok, probe, load_ok))
    \/ \E p \in Procs : api_return(p)

SpecEmbedDb == Init /\ [][NextEmbedDb]_vars

\* Transcript files migrated into sessions that also receive appends, one
\* request at a time
NextMigrate ==
    \/ \E p \in Procs : OthersIdle(p) /\
          (\E s \in Sessions, events \in EventLists :
              \E failed \in SUBSET (1..Len(events)) :
                 migrate_transcripts(p, s, events, failed))
    \/ \E p \in Procs : OthersIdle(p) /\ TranscriptStep(p)
    \/ \E p \in Procs : api_return(p)

SpecMigrate == Init /\ [][NextMigrate]_vars

\* The operations' use of a small connection pool, fully interleaved
NextPool ==
    \/ \E p \in Procs : PoolStep(p)
    \/ \E p \in Procs : api_return(p)

SpecPool == InitSmallPool /\ [][NextPool]_vars

\* The vector codec applied to every input list
NextVec ==
    \/ \E p \in Procs : OthersIdle(p) /\
          (\E embedding \in FloatLists : to_vector_call(p, embedding))
    \/ \E p \in Procs : api_return(p)

SpecVec == Init /\ [][NextVec]_vars

\* The routes of a service that started without a connection pool
NextNoPool ==
    \/ \E p \in Procs : RouteStep(p)
    \/ \E p \in Procs : api_return(p)

SpecNoPool == InitNoPool /\ [][NextNoPool]_vars

\* The memory service across restarts: rows stored by an earlier run are in
\* the tables while the provider of the new run is not yet initialized.
NextRestart ==
    \/ NextMem
    \/ restart

SpecRestart == Init /\ [][NextRestart]_vars

\* every handler of the service, interleaved at every statement
Next ==
    \/ \E p \in Procs : TranscriptStep(p)
    \/ \E p \in Procs : ChunkStep(p)
    \/ \E p \in Procs : MemoryStep(p)
    \/ \E p \in Procs : BatchStep(p)
    \/ \E p \in Procs : \E failing \in SUBSET StatusTableSet : get_status(p, failing)
    \/ \E p \in Procs : \E fs \in FileLists : \E fail_at \in 0..Len(fs) : sync_files(p, fs, fail_at)
    \/ \E p \in Procs : \E row \in CacheRows : migrate_embedding_cache(p, row)
    \/ \E p \in Procs : SessionStep(p)
    \/ \E p \in Procs : SessionDataStep(p)
    \/ \E p \in Procs : RouteStep(p)
    \/ \E p \in Procs : PoolStep(p)
    \/ shutdown
    \/ \E p \in Procs : \E texts \in TextLists : embed_texts_db_begin(p, texts)
    \/ \E p \in Procs : \E outcome \in StatementOutcomes :
          embed_texts_db_statement(p, outcome)
    \/ \E p \in Procs : EmbeddingStep(p)
    \/ \E p \in Procs : api_return(p)
    \/ tick
    \/ restart

Spec == Init /\ [][Next]_vars

----------------------------------------------------------------------------
(* C1, C2: transcript sequence numbers *)

SeqNums(rows) == [i \in 1..Len(rows) |-> rows[i].sequence_num]

\* C1: when appends never overlap, get_events of every session lists the
\* sequence numbers 0,1,...,n-1 in that order, and an append returns the
\* sequence_num of the row it stored.
C1_SingleWriterSequence ==
    /\ \A s \in Sessions : \A rows \in get_events(s, 0, MaxEvents + 1) :
          /\ Len(rows) = Cardinality(SessionEvents(s))
          /\ SeqNums(rows) = [i \in 1..Len(rows) |-> i - 1]
    /\ \A p \in Procs : (pc[p] = "return" /\ loc[p].op = "append") =>
          \E e \in transcripts : /\ e.id = loc[p].id
                                 /\ e.session_id = loc[p].session_id
                                 /\ e.sequence_num = loc[p].sequence_num

C1_Witness ==
    \E p \in Procs :
        /\ pc[p] = "return"
        /\ loc[p].op = "append"
        /\ loc[p].sequence_num = 2
        /\ Cardinality(SessionEvents(loc[p].session_id)) = 3

\* C2: no two stored events of one session share a sequence_num, whatever
\* the interleaving of concurrent appends.
C2_NoDuplicateSeq ==
    \A e1, e2 \in transcripts :
        (e1.session_id = e2.session_id /\ e1.sequence_num = e2.sequence_num)
            => e1 = e2

----------------------------------------------------------------------------
(* C3 .. C8: the similarity query and the recall side effect *)

\* a search or recall of process p has built its result list
Answered(p) ==
    /\ pc[p] \in {"return", "recall_update"}
    /\ loc[p].op \in {"search", "recall"}
    /\ loc[p].status = "ok"

\* the stored rows the categorical filter of p's call admits
Matching(p) ==
    IF loc[p].op = "search"
    THEN { c \in chunks : loc[p].filter = "" \/ c.source = loc[p].filter }
    ELSE { m \in memories : m.agent_id = loc[p].filter }

\* C3: the UPDATE of a recall that returned N results raises the stored
\* access_count of exactly those N memories by 1 and sets their accessed_at
\* to the current time; every other memory (other agents, outside the top
\* max_results, dropped by min_score) keeps both; the SELECT changes nothing.
C3_RecallSideEffect ==
    [][\A p \in Procs :
         /\ (pc[p] = "idle" /\ pc'[p] # "idle" /\ loc'[p].op = "recall")
               => memories' = memories
         /\ (pc[p] = "recall_update" /\ pc'[p] = "return") =>
               /\ loc'[p] = loc[p]
               /\ Cardinality(memories') = Cardinality(memories)
               /\ \A m \in memories :
                     IF m.memory_id \in memory_ids_of(loc[p].results)
                     THEN [m EXCEPT !.access_count = m.access_count + 1,
                                    !.accessed_at = now] \in memories'
                     ELSE m \in memories']_vars

C3_Witness ==
    \E p \in Procs : \E m1, m2 \in memories :
        /\ pc[p] = "return"
        /\ loc[p].op = "recall"
        /\ Len(loc[p].results) = 1
        /\ loc[p].results[1].memory_id = m1.memory_id
        /\ m1.access_count = 1
        /\ m1.accessed_at = 1
        /\ now = 1
        /\ m2.agent_id = m1.agent_id
        /\ m2.memory_id # m1.memory_id
        /\ m2.access_count = 0
        /\ m2.accessed_at = 0

\* C4: when the agent's only two memories both pass min_score and
\* max_results admits both, recall returns both, and each returned result
\* carries access_count 1, the value now stored.
C4_ReturnedAccessCount ==
    \A p \in Procs :
        ( /\ pc[p] = "return"
          /\ loc[p].op = "recall"
          /\ loc[p].status = "ok"
          /\ loc[p].max_results >= 2
          /\ loc[p].qvec.kind = "unit"
          /\ Cardinality(Matching(p)) = 2
          /\ \A m \in Matching(p) :
                /\ m.embedding.kind = "unit"
                /\ passes_threshold(similarity_of(m, loc[p].qvec, 100000),
                                    loc[p].min_score)
                /\ m.access_count = 1 )
        => /\ Len(loc[p].results) = 2
           /\ \A i \in 1..Len(loc[p].results) : loc[p].results[i].access_count = 1

\* C5: every result of search and recall has similarity >= min_score.
C5_Threshold ==
    \A p \in Procs : Answered(p) =>
        \A i \in 1..Len(loc[p].results) :
            loc[p].results[i].similarity >= loc[p].min_score

C5_Witness ==
    \E p \in Procs :
        /\ Answered(p)
        /\ loc[p].op = "recall"
        /\ loc[p].max_results = 2
        /\ Len(loc[p].results) = 1
        /\ loc[p].results[1].similarity = loc[p].min_score
        /\ \E m \in Matching(p) :
              /\ m.memory_id # loc[p].results[1].memory_id
              /\ m.embedding.kind = "unit"
              /\ similarity_of(m, loc[p].qvec, 100000) < loc[p].min_score

\* C6: search and recall return at most max_results results.
C6_ResultCap ==
    \A p \in Procs :
        (pc[p] \in {"return", "recall_update"} /\ loc[p].op \in {"search", "recall"})
            => Len(loc[p].results) <= loc[p].max_results

C6_Witness ==
    \E p \in Procs :
        /\ Answered(p)
        /\ loc[p].op = "search"
        /\ loc[p].max_results = 1
        /\ Len(loc[p].results) = 1
        /\ loc[p].qvec.kind = "unit"
        /\ Cardinality({ c \in Matching(p) :
               /\ c.embedding.kind = "unit"
               /\ similarity_of(c, loc[p].qvec, 100000) >= loc[p].min_score }) = 2

\* C7: the results of search and recall are in non-increasing similarity order.
C7_Ordering ==
    \A p \in Procs : Answered(p) =>
        \A i \in 1..(Len(loc[p].results) - 1) :
            loc[p].results[i].similarity >= loc[p].results[i + 1].similarity

C7_Witness ==
    \E p \in Procs :
        /\ Answered(p)
        /\ Len(loc[p].results) = 2
        /\ loc[p].results[1].similarity > loc[p].results[2].similarity

\* C8: every result matches the categorical filter, and the max_results
\* nearest rows are chosen among the matching rows: the number of results is
\* the smaller of max_results and the number of matching rows that pass
\* min_score, however many nearer rows of other sources or agents exist.
C8_PreFilter ==
    \A p \in Procs : Answered(p) =>
        /\ \A i \in 1..Len(loc[p].results) :
              IF loc[p].op = "search"
              THEN loc[p].filter # "" => loc[p].results[i].source = loc[p].filter
              ELSE loc[p].results[i].agent_id = loc[p].filter
        /\ \E zd \in ZeroNormDistances :
              Len(loc[p].results) =
                 Min2(loc[p].max_results,
                      Cardinality({ r \in Matching(p) :
                          /\ r.embedding.kind # "null"
                          /\ similarity_of(r, loc[p].qvec, zd) >= loc[p].min_score }))

C8_Witness ==
    \E p \in Procs :
        /\ Answered(p)
        /\ loc[p].op = "search"
        /\ loc[p].filter # ""
        /\ loc[p].max_results = 1
        /\ Len(loc[p].results) = 1
        /\ \E c \in chunks :
              /\ c.source # loc[p].filter
              /\ c.embedding.kind = "unit"
              /\ loc[p].qvec.kind = "unit"
              /\ similarity_of(c, loc[p].qvec, 100000) > loc[p].results[1].similarity

----------------------------------------------------------------------------
(* C9, C10: the embedding provider *)

\* C9: a chunk or memory is stored only with the vector the model gives its
\* text: when the backend raises or returns no row or a null vector the
\* write is aborted, so no stored embedding is missing or all-zero.
C9_NoSubstituteEmbedding ==
    /\ \A c \in chunks : c.embedding = Embed(c.text)
    /\ \A m \in memories : m.embedding = Embed(m.text)

\* C10: initialize commits to database mode exactly when the model is
\* reported registered and the probe on a fresh connection returns a
\* non-null vector; in every other case it loads the local model and, if
\* that succeeds, commits to python mode with no remote connection open.
C10_ModeSelection ==
    \A p \in Procs : (pc[p] = "return" /\ loc[p].op = "initialize") =>
        LET probe_ok == /\ loc[p].registered
                        /\ loc[p].conn_ok
                        /\ loc[p].probe = "vector"
        IN  /\ probe_ok => /\ loc[p].status = "ok"
                           /\ mode = "database"
                           /\ sync_conn = "conn"
            /\ (loc[p].status = "ok" /\ mode = "database") => probe_ok
            /\ (~probe_ok /\ loc[p].load_ok) => /\ loc[p].status = "ok"
                                                /\ mode = "python"
                                                /\ sync_conn = "None"
                                                /\ open_conns = 0

\* C11: when the remote probe fails and the local model fails to load,
\* initialize raises and the provider cannot serve: mode is None, no
\* connection and no model is held, and every embed call raises.
C11_FailedInitializeUnavailable ==
    \A p \in Procs :
        (pc[p] = "return" /\ loc[p].op = "initialize" /\ ~loc[p].load_ok
           /\ ~(loc[p].registered /\ loc[p].conn_ok /\ loc[p].probe = "vector"))
        => /\ loc[p].status = "error"
           /\ mode = "None"
           /\ sync_conn = "None"
           /\ model = "None"
           /\ \A t \in Texts : \A out \in embed_query(t) : out.status = "error"

\* C12: an embed_texts / embed_query call never changes the mode (nor the
\* connection or model held); in database mode a failing call raises to
\* its caller and the mode stays database.
C12_NoHotSwap ==
    [][\A p \in Procs :
         (pc[p] = "idle" /\ pc'[p] = "return" /\ loc'[p].op = "embed_texts")
         => /\ mode' = mode
            /\ sync_conn' = sync_conn
            /\ model' = model
            /\ (loc'[p].status = "error") => (loc'[p].vecs = <<>>)
            /\ \A i \in 1..Len(loc'[p].vecs) : loc'[p].vecs[i].kind # "null"]_vars

C12_Witness ==
    \E p \in Procs :
        /\ pc[p] = "return"
        /\ loc[p].op = "embed_texts"
        /\ loc[p].status = "error"
        /\ mode = "database"

\* C13: once initialize has committed the provider to database or python
\* mode, no later operation changes the mode.
C13_ModesTerminal ==
    [][(mode \in {"database", "python"}) => (mode' = mode)]_vars

----------------------------------------------------------------------------
(* C14 .. C17: writes, the uninitialized provider, the access fields *)

\* C14: while the provider is not initialized (mode None), embed_texts /
\* embed_query raise in one step without opening a connection, and search,
\* store_chunk, remember and recall raise without inserting, updating or
\* deleting any chunk or memory.
C14_UninitializedFails ==
    [][\A p \in Procs :
         (/\ mode = "None"
          /\ pc[p] = "idle"
          /\ pc'[p] # "idle"
          /\ loc'[p].op \in {"embed_texts", "search", "store_chunk",
                              "remember", "recall"})
         => /\ pc'[p] = "return"
            /\ loc'[p].status = "error"
            /\ chunks' = chunks
            /\ memories' = memories
            /\ open_conns' = open_conns
            /\ sync_conn' = sync_conn
            /\ mode' = mode]_vars

C14_Witness ==
    \E p \in Procs :
        /\ mode = "None"
        /\ pc[p] = "return"
        /\ loc[p].op = "store_chunk"
        /\ loc[p].status = "error"
        /\ \E c \in chunks : c.chunk_id = loc[p].id
        /\ Cardinality(chunks) = 2

\* C15: store_chunk is an upsert keyed by chunk id: there is at most one
\* row per id; after a successful store_chunk the row of that id holds the
\* request's path, source, lines, hash, model and text and the embedding
\* computed by that call, and every other row is unchanged; storing a row
\* that is already stored changes nothing; delete_chunk returns 0 or 1.
C15_Upsert ==
    /\ [](/\ \A c1, c2 \in chunks : c1.chunk_id = c2.chunk_id => c1 = c2
          /\ \A p \in Procs :
                (pc[p] = "return" /\ loc[p].op = "delete_chunk")
                    => loc[p].deleted \in {0, 1})
    /\ [][\A p \in Procs :
            (/\ pc[p] = "idle"
             /\ pc'[p] = "return"
             /\ loc'[p].op = "store_chunk"
             /\ loc'[p].status = "ok")
            => LET row == chunk_row(loc'[p].chunk, loc'[p].embedding)
               IN  /\ loc'[p].id = loc'[p].chunk.id
                   /\ { c \in chunks' : c.chunk_id = loc'[p].id } = {row}
                   /\ { c \in chunks' : c.chunk_id # loc'[p].id }
                         = { c \in chunks : c.chunk_id # loc'[p].id }
                   /\ (row \in chunks => chunks' = chunks)]_vars

C15_Witness ==
    \E p \in Procs : \E c1, c2 \in chunks :
        /\ pc[p] = "return"
        /\ loc[p].op = "store_chunk"
        /\ loc[p].status = "ok"
        /\ c1 = chunk_row(loc[p].chunk, loc[p].embedding)
        /\ c2.chunk_id # c1.chunk_id
        /\ c2.text # c1.text
        /\ c2.source # c1.source
        /\ Cardinality(chunks) = 2

\* C16: store_chunks_batch handles the chunks in input order with partial
\* failure: stored + len(errors) is the number of chunks, errors lists the
\* ids of the failing chunks in order, and for every id the row written by
\* its last successful iteration is stored, whether a failure came before
\* or after it.
C16_BatchPartialFailure ==
    \A p \in Procs :
        (pc[p] = "return" /\ loc[p].op = "store_chunks_batch") =>
        LET input  == loc[p].chunks
            embs   == loc[p].embeddings
            failed == { i \in 1..Len(input) : embs[i].kind = "null" }
            F[i \in 0..Len(input)] ==
                IF i = 0 THEN <<>>
                ELSE IF i \in failed THEN Append(F[i - 1], input[i].id)
                     ELSE F[i - 1]
        IN  /\ Len(embs) = Len(input)
            /\ loc[p].stored + Len(loc[p].errors) = Len(input)
            /\ loc[p].stored = Len(input) - Cardinality(failed)
            /\ loc[p].errors = F[Len(input)]
            /\ \A id \in ChunkIds :
                  LET oks == { i \in 1..Len(input) :
                                  input[i].id = id /\ i \notin failed }
                  IN  oks # {} =>
                        chunk_row(input[Max(oks)], embs[Max(oks)]) \in chunks

C16_Witness ==
    \E p \in Procs :
        /\ pc[p] = "return"
        /\ loc[p].op = "store_chunks_batch"
        /\ Len(loc[p].chunks) = 2
        /\ loc[p].embeddings[1].kind = "null"
        /\ loc[p].embeddings[2].kind = "unit"
        /\ loc[p].stored = 1
        /\ loc[p].errors = <<loc[p].chunks[1].id>>
        /\ chunk_row(loc[p].chunks[2], loc[p].embeddings[2]) \in chunks

\* C17: a step changes the access_count or accessed_at of an existing
\* memory only if it is the UPDATE of a recall that returns that memory;
\* access_count never decreases; a new memory starts with access_count 0.
C17_AccessFieldsFrame ==
    [][/\ \A m \in memories : \A n \in memories' :
            (n.memory_id = m.memory_id) =>
               /\ n.access_count >= m.access_count
               /\ (n.access_count # m.access_count \/ n.accessed_at # m.accessed_at)
                     => \E p \in Procs :
                           /\ pc[p] = "recall_update"
                           /\ pc'[p] = "return"
                           /\ m.memory_id \in memory_ids_of(loc[p].results)
       /\ \A n \in memories' :
            (n.memory_id \notin { m.memory_id : m \in memories })
               => n.access_count = 0]_vars

C17_Witness ==
    \E p \in Procs : \E m1, m2 \in memories :
        /\ pc[p] = "return"
        /\ loc[p].op \in {"search", "get_status"}
        /\ m1.access_count = 1
        /\ m1.accessed_at = 1
        /\ m2.access_count = 0
        /\ m2.agent_id = m1.agent_id

----------------------------------------------------------------------------
(* C18 .. C20: session maintenance *)

\* C18: in every state of the session table, cap_count(agent, N) leaves
\* exactly min(N, existing_count) sessions of the agent, and a second
\* cap_count(agent, N) directly after it leaves the table as it is
\* (removes 0 sessions).
C18_CapIdempotent ==
    \A a \in Agents, n \in MaxCounts :
        \A S1 \in cap_count_rows(sessions, a, n) :
            /\ Cardinality(AgentSessions(S1, a))
                  = Min2(n, Cardinality(AgentSessions(sessions, a)))
            /\ \A S2 \in cap_count_rows(S1, a, n) :
                  /\ S2 = S1
                  /\ Cardinality(S1) - Cardinality(S2) = 0

C18_Witness ==
    \E p \in Procs :
        /\ pc[p] = "return"
        /\ loc[p].op = "cap_count"
        /\ loc[p].removed = 2
        /\ loc[p].max_count = 1
        /\ Cardinality(AgentSessions(sessions, loc[p].agent_id)) = 1
        /\ \A S2 \in cap_count_rows(sessions, loc[p].agent_id, loc[p].max_count) :
              S2 = sessions

\* C19: cap_count(agent, N) keeps the N most recently updated sessions of
\* the agent: every kept session has updated_at >= every removed one, the
\* returned removed count is max(0, existing_count - N), and the sessions
\* of every other agent are unchanged.
C19_CapKeepsNewest ==
    [][\A p \in Procs :
         (pc[p] = "idle" /\ pc'[p] = "return" /\ loc'[p].op = "cap_count") =>
         LET a      == loc'[p].agent_id
             n      == loc'[p].max_count
             before == AgentSessions(sessions, a)
             after  == AgentSessions(sessions', a)
             excess == Cardinality(before) - n
         IN  /\ after \subseteq before
             /\ \A k \in after : \A r \in before \ after :
                   k.updated_at >= r.updated_at
             /\ loc'[p].removed = IF excess > 0 THEN excess ELSE 0
             /\ loc'[p].removed = Cardinality(before \ after)
             /\ sessions' \ after = sessions \ before]_vars

C19_Witness ==
    \E p \in Procs : \E k1, k2 \in sessions :
        /\ pc[p] = "return"
        /\ loc[p].op = "cap_count"
        /\ loc[p].removed = 1
        /\ loc[p].max_count = 1
        /\ k1.agent_id = loc[p].agent_id
        /\ k1.updated_at = 2
        /\ k2.agent_id # loc[p].agent_id
        /\ k2.updated_at = 0

\* C20: prune_stale(agent, max_age_ms) deletes exactly the sessions of the
\* agent whose updated_at is older than now - max_age_ms and returns their
\* count; the agent's sessions at or after the cutoff and the sessions of
\* other agents are unchanged.
C20_PruneStale ==
    [][\A p \in Procs :
         (pc[p] = "idle" /\ pc'[p] = "return" /\ loc'[p].op = "prune_stale") =>
         LET a     == loc'[p].agent_id
             stale == { r \in sessions :
                          /\ r.agent_id = a
                          /\ r.updated_at < now - loc'[p].max_age_ms }
         IN  /\ sessions' = sessions \ stale
             /\ loc'[p].pruned = Cardinality(stale)]_vars

C20_Witness ==
    \E p \in Procs : \E k1, k2 \in sessions :
        /\ pc[p] = "return"
        /\ loc[p].op = "prune_stale"
        /\ loc[p].pruned = 1
        /\ k1.agent_id = loc[p].agent_id
        /\ k1.updated_at = now - loc[p].max_age_ms
        /\ k2.agent_id # loc[p].agent_id
        /\ k2.updated_at < now - loc[p].max_age_ms

----------------------------------------------------------------------------
(* C24, C25: sessions by key *)

C25_PartialUpdate ==
    [][\A p \in Procs :
          (pc[p] = "idle" /\ pc'[p] = "return"
              /\ loc'[p].op = "update_session") =>
          LET k == loc'[p].session_key
              u == loc'[p].updates
          IN
          /\ \A r \in sessions : r.session_key # k => r \in sessions'
          /\ { r.session_key : r \in sessions' } = { r.session_key : r \in sessions }
          /\ Cardinality(sessions') = Cardinality(sessions)
          /\ \A r \in sessions : \A r2 \in sessions' :
                (r.session_key = k /\ r2.session_key = k) =>
                /\ r2.session_id = r.session_id
                /\ r2.agent_id = r.agent_id
                /\ \A f \in UpdateFields :
                      IF f \in u.present
                      THEN row_to_session(r2)[f] = u[f]
                      ELSE r2[f] = r[f]
          /\ (u.present = {}) =>
                /\ sessions' = sessions
                /\ loc'[p].updated = FALSE
                /\ loc'[p].statements = 0
          /\ (\A r \in sessions : r.session_key # k) =>
                /\ sessions' = sessions
                /\ loc'[p].updated = FALSE
          /\ (u.present # {} /\ \E r \in sessions : r.session_key = k) =>
                loc'[p].updated = TRUE]_vars

C25_Witness ==
    \E p \in Procs : \E g \in get_session("k1") :
        /\ pc[p] = "return"
        /\ loc[p].op = "update_session"
        /\ loc[p].session_key = "k1"
        /\ loc[p].updated = TRUE
        /\ g.session_data = <<"a">>
        /\ g.channel = "web"
        /\ g.label = "None"
        /\ g.agent_id = "y"
        /\ get_session_route("k2") = 200

----------------------------------------------------------------------------
(* C22, C23, C26: reading and deleting transcripts *)

\* C22: get_header(s) finds exactly the event with sequence_num 0, which
\* is the first event appended to the session (the one with the earliest
\* id), and finds nothing exactly when the session has no event with
\* sequence_num 0; a first append returns sequence_num 0 and the second
\* returns 1.
C22_Header ==
    /\ \A s \in Sessions :
          /\ Cardinality(get_header(s)) <= 1
          /\ (get_header(s) = {}) = (\A e \in SessionEvents(s) : e.sequence_num # 0)
          /\ (SessionEvents(s) # {}) => (get_header(s) # {})
          /\ \A h \in get_header(s) :
                /\ h.session_id = s
                /\ h.sequence_num = 0
                /\ \A e \in SessionEvents(s) : h.id <= e.id
    /\ \A p \in Procs : (pc[p] = "return" /\ loc[p].op = "append") =>
          loc[p].sequence_num = Cardinality(SessionEvents(loc[p].session_id)) - 1

\* C23: delete_session(s) removes every event of s and no other event and
\* returns the number removed (0 when s has none); afterwards get_events(s)
\* is empty, get_header(s) finds nothing and the next append to s gets
\* sequence_num 0.
C23_DeleteSession ==
    [][\A p \in Procs :
         (pc[p] = "idle" /\ pc'[p] = "return" /\ loc'[p].op = "delete_session") =>
         \E s \in Sessions :
             /\ s = loc'[p].session_id
             /\ transcripts' = { e \in transcripts : e.session_id # s }
             /\ loc'[p].deleted = Cardinality({ e \in transcripts : e.session_id = s })
             /\ get_events(s, 0, MaxEvents + 1)' = {<<>>}
             /\ get_header(s)' = {}
             /\ next_seq_num(s)' = 0]_vars

C23_Witness ==
    \E p \in Procs :
        /\ pc[p] = "return"
        /\ loc[p].op = "delete_session"
        /\ loc[p].deleted = 2
        /\ SessionEvents(loc[p].session_id) = {}
        /\ transcripts # {}

\* C26: get_events(s, offset, limit) returns only events of session s, in
\* ascending sequence_num order, at most limit of them and as many as remain
\* after the first offset events; and for every limit >= 1 the pages at
\* offsets 0, limit, 2*limit, ... read from one state contain every event
\* of s at exactly one position.
C26_Paging ==
    \A s \in Sessions :
        LET n == Cardinality(SessionEvents(s))
        IN  /\ \A offset \in 0..(MaxEvents + 1) : \A limit \in 0..(MaxEvents + 1) :
                  \A page \in get_events(s, offset, limit) :
                      /\ \A i \in 1..Len(page) : page[i] \in SessionEvents(s)
                      /\ \A i \in 1..Len(page) : \A j \in 1..Len(page) :
                            i < j => page[i].sequence_num <= page[j].sequence_num
                      /\ Len(page) = Max({0, Min2(limit, n - offset)})
            /\ \A limit \in 1..(MaxEvents + 1) : \A e \in SessionEvents(s) :
                  Cardinality({ ij \in (0..MaxEvents) \X (1..(MaxEvents + 1)) :
                      \E page \in get_events(s, ij[1] * limit, limit) :
                          ij[2] <= Len(page) /\ page[ij[2]] = e }) = 1

----------------------------------------------------------------------------
(* C27: get_status *)

\* C27: every get_status call returns normally with four counts; the count
\* of a table whose query raised is 0 and the count of every other table is
\* the number of rows that table holds, whichever of the other queries
\* raised; the call changes no table.
C27_StatusCounts ==
    [][\A p \in Procs :
          (pc[p] = "idle" /\ pc'[p] = "return" /\ loc'[p].op = "get_status") =>
          LET r == loc'[p]
              count(table, true_count) ==
                  IF table \in r.failing THEN 0 ELSE true_count
          IN  /\ r.status = "ok"
              /\ r.chunk_count = count("ORACLAW_CHUNKS", Cardinality(chunks))
              /\ r.file_count = count("ORACLAW_FILES", Cardinality(files))
              /\ r.memory_count = count("ORACLAW_MEMORIES", Cardinality(memories))
              /\ r.cache_count =
                    count("ORACLAW_EMBEDDING_CACHE", Cardinality(embedding_cache))
              /\ UNCHANGED <<chunks, files, memories, embedding_cache>>]_vars

C27_Witness ==
    \E p \in Procs :
        /\ pc[p] = "return"
        /\ loc[p].op = "get_status"
        /\ loc[p].failing = {"ORACLAW_FILES"}
        /\ Cardinality(files) = 2
        /\ loc[p].file_count = 0
        /\ loc[p].chunk_count = 2
        /\ loc[p].memory_count = 1
        /\ loc[p].cache_count = 1

----------------------------------------------------------------------------
(* C28: embed_texts on lists *)

\* C28: in either mode, a successful embed_texts(texts) returns as many
\* vectors as there are texts, and the vector at each index is the
\* embedding of the text at that index; embed_query(text) has exactly the
\* outcomes of embed_texts([text]), its vector being element 0 of the list.
C28_OrderAndLength ==
    /\ [][\A p \in Procs : \A texts \in TextLists :
             (embed_texts(p, texts) /\ loc'[p].status = "ok") =>
             /\ Len(loc'[p].vecs) = Len(texts)
             /\ \A i \in 1..Len(texts) : loc'[p].vecs[i] = Embed(texts[i])]_vars
    /\ [](\A text \in Texts :
             /\ \A o \in embed_texts_outcomes(<<text>>) :
                   \E q \in embed_query(text) :
                       /\ q.status = o.status
                       /\ (o.status = "ok") => (Len(o.vecs) = 1 /\ q.vec = o.vecs[1])
             /\ \A q \in embed_query(text) :
                   \E o \in embed_texts_outcomes(<<text>>) :
                       /\ q.status = o.status
                       /\ (o.status = "ok") => (q.vec = o.vecs[1]))

----------------------------------------------------------------------------
(* C29: the routes without a connection pool *)

\* C29: while pool is None, every request to a memory, session,
\* transcript, init or migration endpoint is answered 503 and changes
\* nothing in the store or the provider, and every request to the health
\* endpoint is answered 200 reporting pool min 0, max 0 and loaded = false.
C29_NoPool ==
    [][(pool = "None") =>
          \A p \in Procs : (pc[p] = "idle" /\ pc'[p] # "idle") =>
              /\ pc'[p] = "return"
              /\ UNCHANGED <<avars, sessions, next_uuid, now, tvars, mvars, evars>>
              /\ IF loc'[p].op = "health"
                 THEN /\ loc'[p].http = 200
                      /\ loc'[p].pool_min = 0
                      /\ loc'[p].pool_max = 0
                      /\ loc'[p].loaded = FALSE
                 ELSE /\ loc'[p].op = "route"
                      /\ loc'[p].http = 503]_vars

----------------------------------------------------------------------------
(* C30: remember, forget and count_memories *)

\* C30: no two stored memories share a memory_id.  A successful remember
\* adds exactly one memory, under an id that no stored memory had, and
\* leaves every other memory as it was, so the count of its agent grows by
\* one and no other count changes; a failed remember changes nothing.
\* forget(id) returns 1 and removes exactly the memory with that id if it was
\* stored, and returns 0 and changes nothing otherwise.  count_memories
\* returns the number of stored memories of the agent.  No other step adds
\* or removes a memory.  Hence the count of an agent is the number of its
\* successful remember calls minus the number of those memories forgotten.
C30_RememberForgetCount ==
    /\ [](\A m1 \in memories : \A m2 \in memories :
             m1.memory_id = m2.memory_id => m1 = m2)
    /\ [][\A p \in Procs :
             (pc[p] = "idle" /\ pc'[p] = "return" /\ loc'[p].op = "remember") =>
             IF loc'[p].status = "ok"
             THEN /\ loc'[p].memory_id \notin { m.memory_id : m \in memories }
                  /\ memories \subseteq memories'
                  /\ Cardinality(memories') = Cardinality(memories) + 1
                  /\ memory_keys' =
                        memory_keys \cup {<<loc'[p].memory_id, loc'[p].agent_id>>}
                  /\ \A a \in Agents :
                        memory_count(a)' = memory_count(a) +
                            (IF a = loc'[p].agent_id THEN 1 ELSE 0)
             ELSE memories' = memories]_vars
    /\ [][\A p \in Procs :
             (pc[p] = "idle" /\ pc'[p] = "return" /\ loc'[p].op = "forget") =>
             /\ loc'[p].deleted =
                   (IF loc'[p].memory_id \in { m.memory_id : m \in memories }
                    THEN 1 ELSE 0)
             /\ memories' = { m \in memories : m.memory_id # loc'[p].memory_id }
             /\ \A a \in Agents :
                   memory_count(a)' = memory_count(a) -
                       (IF <<loc'[p].memory_id, a>> \in memory_keys THEN 1 ELSE 0)]_vars
    /\ [][\A p \in Procs :
             (pc[p] = "idle" /\ pc'[p] = "return" /\ loc'[p].op = "count_memories") =>
             /\ loc'[p].count = memory_count(loc'[p].agent_id)
             /\ memories' = memories]_vars
    /\ [][(\A p \in Procs :
              ~(pc[p] = "idle" /\ pc'[p] = "return" /\ loc'[p].op \in {"remember", "forget"}))
           => (memory_keys' = memory_keys)]_vars

\* a remember succeeded as the second stored memory while another request is
\* between the SELECT and the UPDATE of recall
C30_Witness ==
    \E p \in Procs : \E q \in Procs \ {p} :
        /\ pc[p] = "return"
        /\ loc[p].op = "remember"
        /\ loc[p].status = "ok"
        /\ Cardinality(memories) = 2
        /\ pc[q] = "recall_update"
        /\ loc[q].results # <<>>

----------------------------------------------------------------------------
(* C31: the vector codec *)

\* C31 (as stated): _to_vector of n floats yields n float32 items in the same
\* order, each within 1e-6 of the input element; the empty list yields the
\* empty vector.
C31_Within1e6 ==
    \A p \in Procs : (pc[p] = "return" /\ loc[p].op = "_to_vector") =>
        /\ Len(loc[p].vector) = Len(loc[p].embedding)
        /\ \A i \in 1..Len(loc[p].embedding) :
              within_1e6(loc[p].embedding[i], loc[p].vector[i])

\* C31 (amended): _to_vector of n floats yields n float32 items in the same
\* order, item i being element i rounded to a nearest float32 value (same
\* sign, at most half a unit in the last place away, a 24-bit significand):
\* equal to the element when the element is a float32 value, and within 1e-6
\* of it whenever the element's magnitude is below 32; the empty list yields
\* the empty vector.
C31_Codec ==
    \A p \in Procs : (pc[p] = "return" /\ loc[p].op = "_to_vector") =>
        LET v == loc[p].embedding
            w == loc[p].vector
        IN  /\ Len(w) = Len(v)
            /\ (v = <<>>) => (w = <<>>)
            /\ \A i \in 1..Len(v) :
                  /\ (v[i].m = 0) => (w[i].m = 0)
                  /\ (v[i].m # 0) =>
                        /\ w[i].sign = v[i].sign
                        /\ w[i].m >= Pow2(23) /\ w[i].m < Pow2(24)
                        /\ abs_diff_units(v[i], w[i]) <= 4
                  /\ (v[i].m % 8 = 0) => (abs_diff_units(v[i], w[i]) = 0)
                  /\ below_32(v[i]) => within_1e6(v[i], w[i])

\* a two-element list was converted whose first element lies in [16, 32) and
\* is not a float32 value, and whose second rounds up into the next binade
C31_Witness ==
    \E p \in Procs :
        /\ pc[p] = "return"
        /\ loc[p].op = "_to_vector"
        /\ Len(loc[p].embedding) = 2
        /\ loc[p].embedding[1].e = -22
        /\ loc[p].embedding[1].m % 8 = 4
        /\ loc[p].embedding[2].m = Pow2(27) - 1
        /\ loc[p].vector[2].m = Pow2(23)

----------------------------------------------------------------------------
(* C32, C33, C38: the connection pool *)

\* C32: while the embedding call of search, store_chunk, remember or recall
\* is in progress, the operation holds no pooled connection.
C32_NoConnectionAcrossEmbedding ==
    \A p \in Procs :
        (/\ pc[p] = "running"
         /\ loc[p].op \in {"search", "store_chunk", "remember", "recall"}
         /\ current_step(p) = "embed") => (held[p] = 0)

\* C33: the busy connections of the pool are exactly those the running
\* operations hold and never exceed pool.max; an operation that has returned
\* or raised holds none, whatever step raised; so busy is 0 whenever no
\* operation is in flight.
C33_ScopedAcquisition ==
    /\ busy <= pool_max
    /\ busy = SumHeld(Procs)
    /\ \A p \in Procs : (pc[p] \in {"idle", "return"}) => (held[p] = 0)
    /\ (\A p \in Procs : pc[p] \in {"idle", "return"}) => (busy = 0)

\* store_chunk raised while it held its connection, and the exit released it
C33_Witness ==
    \E p \in Procs :
        /\ pc[p] = "return"
        /\ loc[p].op = "store_chunk"
        /\ loc[p].status = "error"
        /\ loc[p].released = 1
        /\ busy = 0

\* C38: no operation is at an acquire while it holds a pooled connection,
\* and no state is reached in which init_schema calls wait for a connection
\* that only waiting init_schema calls could release.
C38_NoAcquireWhileHolding ==
    /\ \A p \in Procs : (current_step(p) = "acquire") => (held[p] = 0)
    /\ ~(/\ \E p \in Procs : pc[p] = "running" /\ loc[p].op = "init_schema"
         /\ \A p \in Procs : pc[p] = "running" =>
                (loc[p].op = "init_schema" /\ waiting(p) /\ held[p] > 0))

----------------------------------------------------------------------------
(* C34: concurrent embedding calls in database mode *)

\* C34: in database mode, whatever the interleaving of the statements of
\* concurrent embed_texts calls on the shared connection, a call that
\* returns has one vector per text of its own list, the vector at each
\* index being the embedding of its own text at that index.
C34_OwnVectors ==
    \A p \in Procs :
        (pc[p] = "return" /\ loc[p].op = "embed_texts_db" /\ loc[p].status = "ok") =>
            /\ Len(loc[p].vecs) = Len(loc[p].texts)
            /\ \A i \in 1..Len(loc[p].texts) :
                  loc[p].vecs[i] = Embed(loc[p].texts[i])

----------------------------------------------------------------------------
(* C35: the mode and the handle it needs *)

\* C35: in every reachable state of the provider, mode = database implies
\* that a connection handle is held and mode = python implies that a local
\* model is loaded, and a health report says loaded only when the handle of
\* the mode exists.
C35_ModeHasHandle ==
    /\ (mode = "database") => (sync_conn # "None")
    /\ (mode = "python") => (model # "None")
    /\ \A p \in Procs :
          (pc[p] = "return" /\ loc[p].op = "health" /\ loc[p].loaded) =>
              \/ mode = "database" /\ sync_conn # "None"
              \/ mode = "python" /\ model # "None"

----------------------------------------------------------------------------
(* C36: concurrent recalls *)

\* the stored access_count of the memory with this id
access_count_of(id) ==
    LET m == CHOOSE m \in memories : m.memory_id = id IN m.access_count

\* C36: the UPDATE of every recall, whatever other recalls have read or
\* written since its SELECT, raises the stored access_count of each memory
\* it returns and that is still stored by exactly one over the value stored
\* just before, and leaves every other memory as it was; no other step
\* changes the access_count of a memory that stays stored.  Hence k recalls
\* returning a memory that is not forgotten meanwhile raise its count by k.
C36_NoLostIncrement ==
    /\ [][\A p \in Procs : (pc[p] = "recall_update" /\ pc'[p] = "return") =>
             /\ { m.memory_id : m \in memories' } = { m.memory_id : m \in memories }
             /\ \A id \in { m.memory_id : m \in memories } :
                   access_count_of(id)' = access_count_of(id) +
                       (IF id \in memory_ids_of(loc[p].results) THEN 1 ELSE 0)]_vars
    /\ [][(\A p \in Procs : ~(pc[p] = "recall_update" /\ pc'[p] = "return")) =>
             \A id \in { m.memory_id : m \in memories } \cap
                        { m.memory_id : m \in memories' } :
                 access_count_of(id)' = access_count_of(id)]_vars

\* the second of two recalls that both read access_count 0 for a memory has
\* returned, and the stored access_count of that memory is 2
C36_Witness ==
    \E p \in Procs : \E m \in memories :
        /\ pc[p] = "return"
        /\ loc[p].op = "recall"
        /\ loc[p].status = "ok"
        /\ \E i \in 1..Len(loc[p].results) :
              /\ loc[p].results[i].memory_id = m.memory_id
              /\ loc[p].results[i].access_count = 0
        /\ m.access_count = 2

----------------------------------------------------------------------------
(* C37: the top-K cut and the threshold *)

\* the stored rows that p's call admits and that pass min_score
Passing(p, zd) ==
    { r \in Matching(p) :
        /\ r.embedding.kind # "null"
        /\ similarity_of(r, loc[p].qvec, zd) >= loc[p].min_score }

\* the ids of the rows p's call returned
ResultIds(p) ==
    { IF loc[p].op = "search" THEN loc[p].results[i].chunk_id
      ELSE loc[p].results[i].memory_id : i \in 1..Len(loc[p].results) }

\* the id column of a row of p's table
RowId(p, r) == IF loc[p].op = "search" THEN r.chunk_id ELSE r.memory_id

\* C37: the results of search and recall are the max_results nearest of the
\* filter-matching candidates that pass min_score: every result is such a
\* candidate, their number is the smaller of max_results and the number of
\* such candidates (so fewer than max_results are returned only when fewer
\* pass), and no such candidate left out is nearer than a returned one.
C37_CutThenThreshold ==
    \A p \in Procs : Answered(p) =>
        \E zd \in ZeroNormDistances :
            /\ ResultIds(p) \subseteq { RowId(p, r) : r \in Passing(p, zd) }
            /\ Cardinality(ResultIds(p)) = Len(loc[p].results)
            /\ Len(loc[p].results) =
                  Min2(loc[p].max_results, Cardinality(Passing(p, zd)))
            /\ \A r \in Passing(p, zd) :
                  (RowId(p, r) \notin ResultIds(p)) =>
                      \A i \in 1..Len(loc[p].results) :
                          loc[p].results[i].similarity >=
                              similarity_of(r, loc[p].qvec, zd)

\* a recall with max_results 1 returned the nearer of two memories that both
\* pass min_score, the other being strictly farther
C37_Witness ==
    \E p \in Procs :
        /\ Answered(p)
        /\ loc[p].op = "recall"
        /\ loc[p].max_results = 1
        /\ Len(loc[p].results) = 1
        /\ loc[p].qvec.kind = "unit"
        /\ \E m \in Matching(p) :
              /\ m.memory_id # loc[p].results[1].memory_id
              /\ m.embedding.kind = "unit"
              /\ similarity_of(m, loc[p].qvec, 100000) >= loc[p].min_score
              /\ similarity_of(m, loc[p].qvec, 100000) < loc[p].results[1].similarity

----------------------------------------------------------------------------
(* C39: sync_files *)

\* C39: a sync_files call in which the MERGE of some file raises leaves
\* ORACLAW_FILES exactly as it was, whichever file fails and however many
\* MERGEs ran before it; a call that succeeds returns the number of files it
\* was given and leaves, for each of them, a row under its file_id; and no
\* two rows share a file_id.
C39_AllOrNothing ==
    /\ [](\A r1 \in files : \A r2 \in files : r1.file_id = r2.file_id => r1 = r2)
    /\ [][\A p \in Procs :
             (pc[p] = "idle" /\ pc'[p] = "return" /\ loc'[p].op = "sync_files") =>
             IF loc'[p].status = "error"
             THEN files' = files
             ELSE /\ loc'[p].upserted = Len(loc'[p].fs)
                  /\ \A i \in 1..Len(loc'[p].fs) :
                        \E r \in files' : r.file_id = loc'[p].fs[i].file_id
                  /\ \A r \in files :
                        (\A i \in 1..Len(loc'[p].fs) :
                            loc'[p].fs[i].file_id # r.file_id) => r \in files']_vars

\* a call failed at its second file after the MERGE of its first file, which
\* would have changed the stored row of that file, and the row is unchanged
C39_Witness ==
    \E p \in Procs :
        /\ pc[p] = "return"
        /\ loc[p].op = "sync_files"
        /\ loc[p].status = "error"
        /\ loc[p].fail_at = 2
        /\ \E r \in files :
              /\ r.file_id = loc[p].fs[1].file_id
              /\ r.hash # loc[p].fs[1].hash

----------------------------------------------------------------------------
(* C40: the transcript migrator *)

\* C40: the events that _insert_events adds to a session carry the sequence
\* numbers max + 1, max + 2, ... of the session as it was (0, 1, ... for an
\* empty session), one number each, without a gap and without a duplicate,
\* also when the INSERT of some event of the file fails.
C40_MigratedSequence ==
    [][\A p \in Procs :
         (pc[p] = "idle" /\ pc'[p] = "return" /\ loc'[p].op = "migrate_transcripts") =>
         \E s \in Sessions :
            /\ s = loc'[p].session_id
            /\ LET added == SessionEvents(s)' \ SessionEvents(s)
               IN  /\ Cardinality(added) = loc'[p].events_migrated
                   /\ { e.sequence_num : e \in added } =
                         next_seq_num(s) ..
                             (next_seq_num(s) + Cardinality(added) - 1)]_vars

====
